---- MODULE Spec2Model ----
(***************************************************************************)
(* Bulk import and matching pipeline of the products-mapping backend:      *)
(* api/tasks.py (process_file_upload, process_supplier_file,               *)
(* process_supplier_file_with_orm, process_product_file), the management   *)
(* commands that start them and the cancel endpoint of api/views.py.       *)
(*                                                                         *)
(* One import job is run from its creation (status pending) to the return  *)
(* of its driver.  The remote store answers every call with data, with an  *)
(* empty payload or with an error; the number of calls that may go wrong   *)
(* in one run is bounded by MaxFaults.                                     *)
(***************************************************************************)
EXTENDS Integers, Sequences, FiniteSets, TLC

\* ------------------------------------------------------------------ bounds
MaxRows == 2          \* longest file with arbitrary rows
MaxFaults == 2        \* store calls that may fail in one run
LongRows == 12        \* length of the one long file (progress arithmetic)

\* ------------------------------------------------- program constants
\* tasks.py:1079 CHUNK_SIZE = 50, scaled so that a batch of 2 has 2 chunks
CHUNK_SIZE == 1
\* tasks.py:1867 CHUNK_SIZE = 25 of the final product batch, same scaling
FINAL_CHUNK_SIZE == 1
\* tasks.py:2035 BATCH_SIZE = 5000, page of the Matching Sweep, scaled
BATCH_SIZE == 2
\* tasks.py:2087
MAX_EMPTY_BATCHES == 5
\* tasks.py:2374 match_batch_size = 50, matches sent in one upsert, scaled
MATCH_BATCH_SIZE == 1
\* tasks.py:2075 total_unmatched = 200000 when the count fails, scaled to more
\* pages than MAX_EMPTY_BATCHES
OVERESTIMATE == 12
\* tasks.py:745 MAX_PREFETCH_ITEMS = 30000, rows sampled by the prefetch, scaled
MAX_PREFETCH_ITEMS == 2

NoId == "null"        \* a null product_id / an empty cell is ""

Min(a, b) == IF a < b THEN a ELSE b
Max(a, b) == IF a > b THEN a ELSE b

\* uuid.uuid4(): the n-th identifier generated in a run
UuidNames == <<"u1", "u2", "u3", "u4", "u5", "u6", "u7", "u8", "u9", "u10",
               "u11", "u12", "u13", "u14", "u15", "u16", "u17", "u18", "u19", "u20",
               "u21", "u22", "u23", "u24", "u25", "u26", "u27", "u28", "u29", "u30",
               "u31", "u32", "u33", "u34", "u35", "u36", "u37", "u38", "u39", "u40"
               >>
Uuid(n) == UuidNames[n]

\* ------------------------------------------------------------ job messages
\* status_message is text; the model keeps what the text is built from.
Msg(kind, fields) == [kind |-> kind, fields |-> fields]
NoMsg == Msg("none", <<>>)

VARIABLES
  job,        \* the ImportJob instance held by the worker (in memory)
  db,         \* the import_jobs row as persisted: status, progress, message, results
  file,       \* the uploaded file: exists, format, mapping, rows
  driver,     \* "upload" (process_file_upload) or "command" (management command)
  history,    \* import_history rows, in creation order
  products,   \* products table
  offers,     \* supplier_products table
  suppliers,  \* suppliers table (names)
  pc,         \* position of the worker
  loc,        \* locals of the running orchestrator
  nextId,     \* number of identifiers generated so far
  faults,     \* store calls that have failed so far
  log,        \* what the run did: rows extracted, write calls, offers examined,
              \* records a write returned (confirmed) or let go unanswered (dropped),
              \* the unmatched offers at the start of the sweep, its failed pages and the
              \* iterations of its page loop
  cancel,     \* position of the one cancel request: idle, checked, done, refused
  norm,       \* a text value and what fix_scientific_notation made of it so far
  rival       \* a second import job running at the same time: its position
              \* and locals

vars == <<job, db, file, driver, history, products, offers, suppliers, pc, loc,
          nextId, faults, log, cancel, norm, rival>>

\* ------------------------------------------------------------ field mapper
\* Column headers a file may carry, and the row attribute each one holds.
Headers == {"Supplier Name", "Brand", "Product name", "EAN", "MPN", "Title",
            "Sale Price", "Price", "Cost", "Supplier Cost", "Supplier stock"}

HeaderField(h) ==
  CASE h = "Supplier Name" -> "supplier"
    [] h = "Brand" -> "brand"
    [] h \in {"Product name", "Title"} -> "name"
    [] h = "EAN" -> "ean"
    [] h = "MPN" -> "mpn"
    [] h = "Supplier stock" -> "stock"
    [] OTHER -> "price"

\* auto_map_amazon_fields: the field the elif chain assigns to a header
\* ("" when no keyword of the chain occurs in the lower-cased header).
AmazonField(h) ==
  CASE h \in {"Title", "Product name"} -> "title"
    [] h = "EAN" -> "ean"
    [] h = "MPN" -> "mpn"
    [] h = "Brand" -> "brand"
    [] h = "Sale Price" -> "sale_price"
    [] OTHER -> ""

\* A mapping is a function from field keys to headers.
EmptyMapping == [k \in {} |-> ""]

auto_map_amazon_fields(columns) ==
  LET keys == {AmazonField(h) : h \in columns} \ {""}
  IN [k \in keys |-> CHOOSE h \in columns : AmazonField(h) = k]

\* process_supplier_file, auto-detection of supplier columns
SupplierField(h) ==
  CASE h = "Supplier Name" -> "supplier_name"
    [] h = "Product name" -> "product_name"
    [] h = "Brand" -> "brand"
    [] h = "EAN" -> "ean"
    [] h = "MPN" -> "mpn"
    [] h = "Supplier Cost" -> "supplier_cost"
    [] h = "Supplier stock" -> "supplier_stock"
    [] OTHER -> ""

AutoDetectSupplier(columns) ==
  LET keys == {SupplierField(h) : h \in columns} \ {""}
  IN [k \in keys |-> CHOOSE h \in columns : SupplierField(h) = k]

\* key.lower() of the explicit mapping keys the model uses
LowerKey(k) ==
  CASE k = "Supplier Name" -> "supplier name"
    [] k = "EAN" -> "ean"
    [] k = "MPN" -> "mpn"
    [] k = "Brand" -> "brand"
    [] k = "Product name" -> "product name"
    [] k = "Title" -> "title"
    [] OTHER -> k

\* the backend name a frontend key is also stored under ("" when none)
BackendKey(k) ==
  CASE k = "Supplier Name" -> "supplier_name"
    [] k = "Brand" -> "brand"
    [] k = "Product name" -> "product_name"
    [] k = "EAN" -> "ean"
    [] k = "MPN" -> "mpn"
    [] OTHER -> ""

\* process_supplier_file: the explicit mapping with its keys cloned under
\* their lower-case and backend spellings
NormalizeSupplierMapping(fm) ==
  LET keys == DOMAIN fm \cup {LowerKey(k) : k \in DOMAIN fm}
                        \cup ({BackendKey(k) : k \in DOMAIN fm} \ {""})
      src(c) == CHOOSE k \in DOMAIN fm : c \in {k, LowerKey(k), BackendKey(k)}
  IN [c \in keys |-> fm[src(c)]]

SupplierMapping(f) ==
  IF DOMAIN f.field_mapping # {} THEN NormalizeSupplierMapping(f.field_mapping)
  ELSE AutoDetectSupplier(f.columns)

\* the spellings under which the one required supplier field is looked for
SupplierNameKeys == {"supplier_name", "Supplier Name", "supplier name",
                     "SupplierName", "supplierName"}

MissingSupplierFields(fm) ==
  IF \E k \in SupplierNameKeys : k \in DOMAIN fm /\ fm[k] # ""
  THEN <<>> ELSE <<"supplier_name">>

\* process_product_file: explicit mapping, else the auto-detected one
ProductMapping(f) ==
  IF DOMAIN f.field_mapping # {} THEN f.field_mapping
  ELSE auto_map_amazon_fields(f.columns)

required_fields == <<"title", "ean", "brand", "sale_price">>

IsAbsent(fm, k) == k \notin DOMAIN fm

\* MissingProductFields reporting only the first absent field
MissingProductFields_FirstOnly(fm) ==
  SubSeq(SelectSeq(required_fields, LAMBDA k : IsAbsent(fm, k)), 1, 1)

MissingProductFields(fm) == SelectSeq(required_fields, LAMBDA k : IsAbsent(fm, k))

\* field_mapping.get(a, field_mapping.get(b, '')): the header of a column
GetCol(fm, a, b) ==
  IF a \in DOMAIN fm THEN fm[a] ELSE IF b \in DOMAIN fm THEN fm[b] ELSE ""

\* the cell of a row under a header; rows hold one value per attribute
Cell(row, h) == row[HeaderField(h)]

\* -------------------------------------------------------- value normalizer
\* fix_scientific_notation on the cell values of the model: sentinels become
\* empty, the one exponent form is expanded, plain tokens are returned as is.
fix_scientific_notation(v) ==
  CASE v \in {"nan", "none", "null", "undefined"} -> ""
    [] v = "8.40E+11" -> "840000000000"
    [] OTHER -> v

\* The same function on the structure of its argument.  A text value is
\*   text: a token that is not a number ("" is the empty text);
\*   sci:  the digits d with a point before the last fd of them (none when
\*         fd = 0), the letter e, a sign ("" when there is none) and the
\*         exponent exp, as in 8.40E+11 = Sci(840, 2, "E", "+", 11);
\*   dec:  the digits m followed by z zeros (fd = 0), or the digits m with
\*         fd of them after the point (z = 0), as in 0.05 = Dec(5, 0, 2);
\*   int_of_double: str(int(float(x))) of the integer x = m followed by z
\*         zeros when x is not the value of a double.
TextValue(s) == [kind |-> "text", s |-> s]
Sci(d, fd, e, sign, exp) ==
  [kind |-> "sci", d |-> d, fd |-> fd, e |-> e, sign |-> sign, exp |-> exp]
Dec(m, z, fd) == [kind |-> "dec", m |-> m, z |-> z, fd |-> fd]
IntOfDouble(m, z) == [kind |-> "int_of_double", m |-> m, z |-> z]

RECURSIVE NumDigits(_)
NumDigits(n) == IF n < 10 THEN 1 ELSE 1 + NumDigits(n \div 10)

\* the integer d * 10^k written as digits without trailing zeros and a
\* count of zeros
RECURSIVE DecInt(_, _)
DecInt(d, k) == IF d > 0 /\ d % 10 = 0 THEN DecInt(d \div 10, k + 1)
                ELSE Dec(d, k, 0)

\* str(float(base)): zeros at the end of the fraction are dropped, one
\* digit is kept after the point
RECURSIVE FloatStr(_, _)
FloatStr(d, fd) == IF fd > 1 /\ d % 10 = 0 THEN FloatStr(d \div 10, fd - 1)
                   ELSE [d |-> d, fd |-> fd]

\* the integer m followed by z zeros is the value of a double: m * 5^z is
\* below 2^53 for z <= 14 and above it from z = 23 on (m < 1000; the values
\* of the model have no z in between)
ExactDouble(m, z) == z < 23

\* float() of an integer of that many digits overflows to inf
OverflowsDouble(digits) == digits > 309

\* abs(float_value) > 1e10 for the integer m followed by z zeros
Above1e10(m, z) == NumDigits(m) + z > 11 \/ (NumDigits(m) + z = 11 /\ m # 1)

\* str(int(float_value)) of a float_value above 1e10
IntStr(m, z) ==
  IF OverflowsDouble(NumDigits(m) + z) THEN TextValue("inf")
  ELSE IF ExactDouble(m, z) THEN DecInt(m, z) ELSE IntOfDouble(m, z)

\* utils.py 31-142
FixScientificNotation(v) ==
  CASE v.kind = "text" ->
         IF v.s \in {"", "nan", "none", "null", "undefined"} THEN TextValue("")
         ELSE v
    [] v.kind = "sci" /\ v.fd > 0 /\ v.sign # "" ->
         \* utils.py 54-87: the sign of the exponent is not read
         IF v.exp > 100
         THEN LET b == FloatStr(v.d, v.fd)
              IN DecInt(b.d, v.exp - (NumDigits(b.d) - 1))
         ELSE IF v.exp >= v.fd THEN IntStr(v.d, v.exp - v.fd)
         ELSE LET b == FloatStr(v.d, v.fd - v.exp + 1)
              IN Dec(b.d, 0, b.fd - 1)
    [] v.kind = "sci" /\ v.fd = 0 ->
         \* utils.py 89-119: integer arithmetic, or the base padded with zeros
         DecInt(v.d, v.exp)
    [] v.kind = "sci" /\ v.fd > 0 /\ v.sign = "" ->
         \* utils.py 121-134: a float the two patterns do not match
         IF v.exp >= v.fd /\ Above1e10(v.d, v.exp - v.fd)
         THEN IntStr(v.d, v.exp - v.fd)
         ELSE v
    [] v.kind = "dec" /\ v.fd = 0 ->
         IF v.m > 0 /\ Above1e10(v.m, v.z)
         THEN IF OverflowsDouble(NumDigits(v.m) + v.z) THEN TextValue("inf")
              ELSE IF ExactDouble(v.m, v.z) THEN v ELSE IntOfDouble(v.m, v.z)
         ELSE v
    [] v.kind = "dec" /\ v.fd > 0 ->
         \* utils.py 127-134: below 1e-10 the float is written by str()
         IF v.m > 0 /\ NumDigits(v.m) + 10 <= v.fd
         THEN Sci(v.m, NumDigits(v.m) - 1, "e", "-", v.fd - NumDigits(v.m) + 1)
         ELSE v
    [] OTHER -> v

\* the values the function is applied to
NormMantissas == {<<1, 0>>, <<5, 0>>, <<15, 1>>, <<84, 1>>, <<840, 2>>}
NormExponents == {2, 11, 14, 101, 200, 400}
NormInputs ==
  {TextValue(t) : t \in {"", "nan", "none", "null", "undefined", "abc", "inf"}}
  \cup {Sci(b[1], b[2], e, sign, exp) :
          b \in NormMantissas, e \in {"E", "e"}, sign \in {"", "+", "-"},
          exp \in NormExponents}
  \cup {Dec(84, 10, 0), Dec(5, 9, 0), Dec(12, 0, 0), Dec(1, 10, 0),
        Dec(15, 199, 0), Dec(1, 400, 0), Dec(125, 0, 1), Dec(5, 0, 2),
        Dec(1, 0, 14), Dec(15, 0, 15), Dec(1, 0, 10)}

\* str.lower() on the text values of the model
Lower(v) ==
  CASE v = "Title1" -> "title1"
    [] v = "Title2" -> "title2"
    [] v = "M-1" -> "m-1"
    [] OTHER -> v

\* len() of a text value of the model
TextLen(v) == CASE v = "" -> 0 [] v = "zz" -> 2 [] OTHER -> 6

\* tasks.py 2023-2028: lower-cased, stripped, alphanumeric characters only
normalize_mpn(mpn) ==
  CASE Lower(mpn) = "m-1" -> "m1"
    [] OTHER -> Lower(mpn)

\* ------------------------------------------------ dedup & identity resolver
\* tasks.py 884-890: the EAN of a supplier row ("" when there is none)
RowEan(row, ean_col, columns) ==
  IF ean_col # "" /\ ean_col \in columns /\ Cell(row, ean_col) # ""
  THEN fix_scientific_notation(Cell(row, ean_col)) ELSE ""

\* a text cell of a supplier row, "" when the column is not mapped
RowText(row, col, columns) ==
  IF col # "" /\ col \in columns THEN Cell(row, col) ELSE ""

\* tasks.py 892-898: the EAN tier of the supplier-import resolver
EanTier(ean, ean_map) ==
  IF ean # "" /\ ean \in DOMAIN ean_map THEN ean_map[ean] ELSE NoId

\* tasks.py 899-928: the MPN tier, entered only when the EAN tier found no
\* product; ondemand is what the occasional remote lookup returned
MpnTier(mpn, index, mpn_map, ondemand) ==
  IF mpn = "" THEN NoId
  ELSE IF mpn \in DOMAIN mpn_map THEN mpn_map[mpn]
  ELSE IF index % 100 = 0 /\ DOMAIN mpn_map = {} THEN ondemand
  ELSE NoId

\* ResolveProductMatch with the MPN tier tried before the EAN tier
ResolveProductMatch_MpnFirst(ean, mpn_cell, index, ean_map, mpn_map, ondemand) ==
  LET byEan == EanTier(ean, ean_map)
      byMpn == MpnTier(mpn_cell, index, mpn_map, ondemand)
  IN IF byMpn # NoId
     THEN [product_id |-> byMpn, match_method |-> "mpn", mpn |-> mpn_cell]
     ELSE IF byEan # NoId
     THEN [product_id |-> byEan, match_method |-> "ean", mpn |-> ""]
     ELSE [product_id |-> NoId, match_method |-> "none", mpn |-> mpn_cell]

\* tasks.py 880-928
ResolveProductMatch(ean, mpn_cell, index, ean_map, mpn_map, ondemand) ==
  LET byEan == EanTier(ean, ean_map)
      byMpn == MpnTier(mpn_cell, index, mpn_map, ondemand)
  IN IF byEan # NoId
     THEN [product_id |-> byEan, match_method |-> "ean", mpn |-> ""]
     ELSE IF byMpn # NoId
     THEN [product_id |-> byMpn, match_method |-> "mpn", mpn |-> mpn_cell]
     ELSE [product_id |-> NoId, match_method |-> "none", mpn |-> mpn_cell]

\* tasks.py 930-972: the composite key of a row and the set it is kept in.
\* The supplier prefix of the key is the same for every row of a run.
DedupKey(m, ean, name) ==
  IF m.product_id = NoId /\ ean = "" /\ m.mpn = ""
  THEN [key |-> name, in |-> "seen_eans", what |-> "product name"]
  ELSE IF m.product_id # NoId
  THEN [key |-> m.product_id, in |-> "seen_product_ids", what |-> "product ID"]
  ELSE IF ean # ""
  THEN [key |-> ean, in |-> "seen_eans", what |-> "EAN"]
  ELSE [key |-> m.mpn, in |-> "seen_product_ids", what |-> "MPN"]

CheckDuplicate(m, ean, name, seen_eans, seen_product_ids) ==
  LET k == DedupKey(m, ean, name)
      seen == IF k.in = "seen_eans" THEN seen_eans ELSE seen_product_ids
      dup == k.key # "" /\ k.key \in seen
  IN [is_duplicate |-> dup,
      reason |-> IF dup THEN k.what ELSE "",
      seen_eans |-> IF k.key # "" /\ k.in = "seen_eans"
                    THEN seen_eans \cup {k.key} ELSE seen_eans,
      seen_product_ids |-> IF k.key # "" /\ k.in = "seen_product_ids"
                           THEN seen_product_ids \cup {k.key}
                           ELSE seen_product_ids]

\* tasks.py 862: progress_step
SupplierProgressStep(total_rows) == Max(1, Min(total_rows \div 40, 500))

\* tasks.py 870: progress_percent of row index (int() of the float product
\* equals the integer quotient for every file length of the model)
SupplierProgressPercent(index, total_rows) ==
  Min(15 + ((index * 80) \div total_rows), 95)

\* tasks.py 1542-1544: the product import's progress at row index
ProductUpdateFrequency(total_rows) == Max(1, Min(total_rows \div 10, 100))

ProductProgress(index, total_rows) == (index * 100) \div total_rows

\* tasks.py 1918: progress written when the rows are done and the sweep starts
HandOverProgress == 90

\* tasks.py 2398-2399: progress after a page of the sweep (total_unmatched > 0)
SweepProgress(offset, total_unmatched) ==
  90 + Min(9, (Min(offset, total_unmatched) * 9) \div total_unmatched)

\* ------------------------------------------------------------------ inputs
Row(supplier, name, brand, ean, mpn, price) ==
  [supplier |-> supplier, name |-> name, brand |-> brand, ean |-> ean,
   mpn |-> mpn, price |-> price]

SupplierRows ==
  {Row("Acme", "n1", "b", e, m, "") : e \in {"", "e1"}, m \in {"", "m1", "m2"}}
  \cup {Row("Acme", "", "", "", "", "")}

ProductRows ==
  {Row("", "title1", "b", "e1", "m1", "9"), Row("", "title1", "b", "e1", "", "9"),
   Row("", "title2", "b", "", "m2", "9"), Row("", "title2", "b", "", "", "9"),
   Row("", "", "b", "e1", "", "9"), Row("", "title1", "", "e1", "", "9")}

FilesOf(rows) == UNION {[1..n -> rows] : n \in 0..MaxRows}

SupplierColumns == {"Supplier Name", "Brand", "Product name", "EAN", "MPN"}
ProductColumns == {"Title", "Brand", "EAN", "MPN", "Sale Price"}

File(exists, format, columns, field_mapping, rows) ==
  [exists |-> exists, format |-> format, columns |-> columns,
   field_mapping |-> field_mapping, rows |-> rows]

\* explicit mappings a client may send with a product file: any subset of
\* the required fields and mpn, each mapped to the header that holds it
ProductHeaderOf(k) ==
  CASE k = "title" -> "Title" [] k = "ean" -> "EAN" [] k = "brand" -> "Brand"
    [] k = "sale_price" -> "Sale Price" [] OTHER -> "MPN"

ExplicitProductMappings ==
  {[k \in ks |-> ProductHeaderOf(k)] :
      ks \in SUBSET {"title", "ean", "brand", "sale_price", "mpn"}}

ExplicitSupplierMappings ==
  {[k \in ks |-> k] : ks \in {{"Supplier Name", "EAN", "MPN", "Product name"},
                              {"supplier_name", "ean"},
                              {"EAN", "MPN"}}}

OneSupplierRow == <<Row("Acme", "n1", "b", "e1", "m1", "")>>

\* the row Acme,WidgetCo,Blue Widget,8.40E+11,12.50,100 and the headers of
\* its file; the same row under a header that names the cost Supplier Cost
AcmeRow == Row("Acme", "Blue Widget", "WidgetCo", "8.40E+11", "", "12.50")
             @@ [stock |-> "100"]
AcmeColumns == {"Supplier Name", "Brand", "Product name", "EAN", "Cost",
                "Supplier stock"}
AcmeColumnsSupplierCost == (AcmeColumns \ {"Cost"}) \cup {"Supplier Cost"}
OneProductRow == <<Row("", "title1", "b", "e1", "m1", "9")>>

\* a file longer than the prefetch sample: the one row with an EAN comes
\* after the MAX_PREFETCH_ITEMS rows the prefetch looks at
PastSampleRows ==
  [i \in 1..(MAX_PREFETCH_ITEMS + 1) |->
     IF i <= MAX_PREFETCH_ITEMS THEN Row("Acme", "n1", "b", "", "", "")
     ELSE Row("Acme", "n1", "b", "e1", "", "")]

\* a file whose second row names another supplier than its first
TwoSupplierRows ==
  <<Row("Acme", "n1", "b", "e1", "", ""), Row("Bolt", "n2", "b", "", "m1", "")>>

SupplierFiles ==
  {File(TRUE, "csv", SupplierColumns, EmptyMapping, r) : r \in FilesOf(SupplierRows)}
  \cup {File(TRUE, "csv", SupplierColumns, fm, OneSupplierRow) :
          fm \in ExplicitSupplierMappings}
  \cup {File(TRUE, "csv", cs, EmptyMapping, OneSupplierRow) :
          cs \in {{"Supplier Name", "EAN"}, {"EAN", "MPN"}, {"Supplier Name"}}}
  \cup {File(FALSE, "csv", SupplierColumns, EmptyMapping, OneSupplierRow),
        File(TRUE, "txt", SupplierColumns, EmptyMapping, OneSupplierRow),
        File(TRUE, "csv", SupplierColumns, EmptyMapping, PastSampleRows),
        File(TRUE, "csv", SupplierColumns, EmptyMapping, TwoSupplierRows),
        File(TRUE, "csv", AcmeColumns, EmptyMapping, <<AcmeRow>>),
        File(TRUE, "csv", AcmeColumnsSupplierCost, EmptyMapping, <<AcmeRow>>)}

\* a long file whose rows carry no brand
LongFile == [i \in 1..LongRows |-> Row("", "title1", "", "", "", "9")]

ProductFiles ==
  {File(TRUE, "csv", ProductColumns, EmptyMapping, r) : r \in FilesOf(ProductRows)}
  \cup {File(TRUE, "csv", ProductColumns, fm, OneProductRow) :
          fm \in ExplicitProductMappings}
  \cup {File(TRUE, "csv", cs, EmptyMapping, OneProductRow) :
          cs \in {{"Title", "EAN", "Brand", "Price"}, {"Product name", "EAN"},
                  {"Price"}}}
  \cup {File(FALSE, "csv", ProductColumns, EmptyMapping, OneProductRow),
        File(TRUE, "txt", ProductColumns, EmptyMapping, OneProductRow),
        File(TRUE, "csv", ProductColumns, EmptyMapping, LongFile),
        File(TRUE, "csv", ProductColumns \ {"Sale Price"},
             [k \in {"title", "ean", "brand", "sale_price"} |-> ProductHeaderOf(k)],
             OneProductRow \o OneProductRow)}

\* ------------------------------------------------------------------- store
Product(id, ean, mpn, title, src) ==
  [id |-> id, ean |-> ean, mpn |-> mpn, title |-> title, src |-> src]

\* products that exist before the run
PA == Product("pA", "e1", "m1", "title a", 0)
PB == Product("pB", "e2", "m2", "title b", 0)

Offer(id, supplier_id, product_id, name, ean, mpn, method, src) ==
  [id |-> id, supplier_id |-> supplier_id, product_id |-> product_id,
   product_name |-> name, ean |-> ean, mpn |-> mpn, match_method |-> method,
   cost |-> 0, supplier_stock |-> 0, src |-> src]

\* unmatched offers left by earlier supplier imports (src 0: not of this run)
OA == Offer("oA", "s1", NoId, "Title2", "e1", "m2", "none", 0)
OB == Offer("oB", "s1", NoId, "", "", "M-1", "none", 0)
OC == Offer("oC", "s1", NoId, "Title1", "", "", "none", 0)
OD == Offer("oD", "s1", NoId, "zz", "e1", "", "none", 0)

OldOffers == {<<>>, <<OA>>, <<OB>>, <<OC>>, <<OA, OB, OD>>, <<OC, OB, OA, OD>>}

NoResults ==
  [set |-> FALSE, total |-> 0, successful |-> 0, failed |-> 0, skipped |-> 0,
   deduped |-> 0, suppliers_added |-> 0, total_matched |-> 0, reasons |-> <<>>]

NewJob(type, batch_size) ==
  [type |-> type, status |-> "pending", progress |-> 0, status_message |-> NoMsg,
   results |-> NoResults, batch_size |-> batch_size, total_rows |-> 0]

\* Model.save(): every column of the row is written from the instance
Persist(j) ==
  [status |-> j.status, progress |-> j.progress,
   status_message |-> j.status_message, results |-> j.results]

HistoryRow(type, status, error_message) ==
  [type |-> type, status |-> status, error_message |-> error_message]

NoStats == [total_matched |-> 0, ean |-> 0, mpn |-> 0, name |-> 0]

InitLoc ==
  [mapping |-> EmptyMapping, total_rows |-> 0, index |-> 0, batch |-> <<>>,
   seen_eans |-> {}, seen_product_ids |-> {}, marks |-> {},
   successful_count |-> 0, error_count |-> 0, skipped_count |-> 0,
   deduped_count |-> 0, duplicate_details |-> <<>>, match_stats |-> NoStats,
   supplier |-> "", suppliers_added |-> 0,
   ean_to_product_id |-> EmptyMapping, mpn_to_product_id |-> EmptyMapping,
   chunk |-> 0, final |-> FALSE, imported_products |-> <<>>,
   products_by_ean |-> EmptyMapping, products_by_mpn |-> EmptyMapping,
   products_by_name |-> EmptyMapping,
   offset |-> 0, total_unmatched |-> 0, max_offset |-> 0,
   consecutive_empty_batches |-> 0, total_processed |-> 0,
   page |-> <<>>, pos |-> 0, matches_to_update |-> <<>>,
   exc |-> NoMsg]

NoFallback == [n |-> 0, s0 |-> 0, e0 |-> 0, done |-> FALSE]

InitLog == [extracted |-> 0, product_writes |-> 0, offer_writes |-> 0,
            examined |-> <<>>, fallback |-> NoFallback,
            confirmed |-> 0, dropped |-> 0,
            sweep |-> [ran |-> FALSE, unmatched |-> 0, page_errors |-> 0,
                       iterations |-> 0]]

InitCommon ==
  /\ history = <<>>
  /\ pc = "start"
  /\ loc = InitLoc
  /\ nextId = 0
  /\ faults = 0
  /\ log = InitLog
  /\ cancel = "idle"
  /\ norm = [v |-> TextValue(""), out |-> <<>>]

InitSupplier ==
  /\ \E b \in 1..MaxRows : job = NewJob("supplier", b)
  /\ file \in SupplierFiles
  /\ driver \in {"upload", "command"}
  /\ products \in {{}, {PA, PB}}
  /\ offers = <<>>
  /\ suppliers \in {{}, {[id |-> "s1", name |-> "Acme"]}}
  /\ InitCommon

InitProduct ==
  /\ \E b \in 1..MaxRows : job = NewJob("product", b)
  /\ file \in ProductFiles
  /\ driver \in {"upload", "command"}
  /\ products \in {{}, {PA}}
  /\ offers \in OldOffers
  /\ (file.rows \notin FilesOf(ProductRows) => offers = <<>>)
  /\ suppliers = {[id |-> "s1", name |-> "Acme"]}
  /\ InitCommon

InitUnknown ==
  /\ job = NewJob("other", 1)
  /\ file = File(TRUE, "csv", ProductColumns, EmptyMapping, OneProductRow)
  /\ driver = "upload"
  /\ products = {} /\ offers = <<>> /\ suppliers = {}
  /\ InitCommon

\* process_file_upload is given the id of a job whose row does not exist
AbsentRow == [Persist(NewJob("other", 1)) EXCEPT !.status = "absent"]

InitAbsent ==
  /\ job = NewJob("other", 1)
  /\ db = AbsentRow
  /\ file = File(TRUE, "csv", ProductColumns, EmptyMapping, OneProductRow)
  /\ driver = "upload"
  /\ products = {} /\ offers = <<>> /\ suppliers = {}
  /\ InitCommon

\* no second job
NoRival == [kind |-> "none", pc |-> "r_none", supplier |-> NoId, page |-> <<>>]

InitJob ==
  \/ /\ (InitSupplier \/ InitProduct \/ InitUnknown)
     /\ db = Persist(job)
  \/ InitAbsent

Init == InitJob /\ rival = NoRival

\* ------------------------------------------------------------ store calls
\* What a call to the remote store can answer: data, an empty payload, or an
\* error.  used is the number of calls that already went wrong in this step.
Outcomes(used) == IF faults + used < MaxFaults THEN {"ok", "empty", "raise"} ELSE {"ok"}

Cost(o) == IF o = "ok" THEN 0 ELSE 1

\* upsert keyed by the record identifier: replace the row in place or append
RECURSIVE Upsert(_, _)
Upsert(table, recs) ==
  IF recs = <<>> THEN table
  ELSE LET r == Head(recs)
           hit == {i \in 1..Len(table) : table[i].id = r.id}
           t2 == IF hit = {} THEN Append(table, r)
                 ELSE [i \in 1..Len(table) |-> IF i \in hit THEN r ELSE table[i]]
       IN Upsert(t2, Tail(recs))

SeqToSet(s) == {s[i] : i \in 1..Len(s)}

\* job.save()
Save(j) == job' = j /\ db' = Persist(j)

\* an exception leaves the try block: the handler at pc h gets its text
Raise(h, msg) == pc' = h /\ loc' = [loc EXCEPT !.exc = msg]

\* --------------------------------------------------------------- drivers
\* process_file_upload 25-30, process_supplier_job 78-82, process_import_job 20-24
Start ==
  /\ pc = "start"
  /\ IF db.status = "absent"
     THEN /\ pc' = "d_unbound"
          /\ UNCHANGED <<job, db>>
     ELSE /\ Save([job EXCEPT !.status = "processing"])
          /\ pc' = CASE job.type = "supplier" -> "s_read"
                     [] job.type = "product" -> "p_read"
                     [] OTHER -> "d_unknown"
  /\ UNCHANGED <<rival, norm, cancel, file, driver, history, products, offers, suppliers, loc, nextId,
                 faults, log>>

\* process_file_upload 37-40
UnknownType ==
  /\ pc = "d_unknown"
  /\ Save([job EXCEPT !.status = "failed",
                      !.status_message = Msg("unknown_type", <<>>)])
  /\ pc' = "done"
  /\ UNCHANGED <<rival, norm, cancel, file, driver, history, products, offers, suppliers, loc, nextId,
                 faults, log>>

\* process_file_upload 42-44: the handler reads the local job, which the
\* failed lookup of line 25 never bound; the error of that read leaves the
\* handler and the function
UnboundExcept ==
  /\ pc = "d_unbound"
  /\ pc' = "escaped"
  /\ UNCHANGED <<rival, norm, job, db, cancel, file, driver, history, products, offers,
                 suppliers, loc, nextId, faults, log>>

\* the instance the driver's handler marks failed: process_file_upload keeps
\* the one it passed on, the commands load the row again
HandlerJob == IF driver = "upload" THEN job
              ELSE [job EXCEPT !.status = db.status, !.progress = db.progress,
                               !.status_message = db.status_message,
                               !.results = db.results]

\* process_file_upload 42-51, process_supplier_job 42-52, process_import_job 48-57
DriverExcept ==
  /\ pc = "d_except"
  /\ Save([HandlerJob EXCEPT !.status = "failed", !.status_message = loc.exc])
  /\ pc' = "done"
  /\ UNCHANGED <<rival, norm, cancel, file, driver, history, products, offers, suppliers, loc, nextId,
                 faults, log>>

\* ------------------------------------------------- process_supplier_file
\* tasks.py 58-70
SupplierRead ==
  /\ pc = "s_read"
  /\ IF ~file.exists
     THEN /\ Raise("s_except", Msg("file_not_found", <<>>))
          /\ UNCHANGED <<job, db>>
     ELSE /\ Save([job EXCEPT !.progress = 1,
                              !.status_message = Msg("progress", <<>>)])
          /\ pc' = "s_parse"
          /\ UNCHANGED loc
  /\ UNCHANGED <<rival, norm, cancel, file, driver, history, products, offers, suppliers, nextId,
                 faults, log>>

\* tasks.py 73-91
SupplierParse ==
  /\ pc = "s_parse"
  /\ IF file.format # "csv"
     THEN /\ Raise("s_except", Msg("unsupported_format", <<>>))
          /\ UNCHANGED <<job, db>>
     ELSE IF Len(file.rows) = 0
     THEN /\ Raise("s_except", Msg("no_data", <<>>))
          /\ UNCHANGED <<job, db>>
     ELSE /\ Save([job EXCEPT !.progress = 2, !.total_rows = Len(file.rows),
                              !.status_message = Msg("progress", <<>>)])
          /\ pc' = "s_map"
          /\ UNCHANGED loc
  /\ UNCHANGED <<rival, norm, cancel, file, driver, history, products, offers, suppliers, nextId,
                 faults, log>>

\* tasks.py 98-205
SupplierMap ==
  /\ pc = "s_map"
  /\ LET fm == SupplierMapping(file)
         missing == MissingSupplierFields(fm)
     IN IF missing # <<>>
        THEN /\ Raise("s_except", Msg("missing_fields", missing))
             /\ UNCHANGED <<job, db>>
        ELSE /\ Save([job EXCEPT !.progress = 5,
                                 !.status_message = Msg("progress", <<>>)])
             /\ pc' = "o_connect"
             /\ loc' = [loc EXCEPT !.mapping =
                   [k \in DOMAIN fm \cup {"supplier_name"} |->
                      IF k = "supplier_name"
                      THEN fm[CHOOSE a \in SupplierNameKeys :
                                a \in DOMAIN fm /\ fm[a] # ""]
                      ELSE fm[k]]]
  /\ UNCHANGED <<rival, norm, cancel, file, driver, history, products, offers, suppliers, nextId,
                 faults, log>>

\* tasks.py 207-227: the handler of process_supplier_file
SupplierExcept ==
  /\ pc = "s_except"
  /\ Save([job EXCEPT !.status = "failed", !.status_message = loc.exc])
  /\ history' = Append(history, HistoryRow("Supplier Data", "Failed", loc.exc))
  /\ pc' = "d_except"
  /\ UNCHANGED <<rival, norm, cancel, file, driver, products, offers, suppliers, loc, nextId, faults, log>>

\* ---------------------------------------- process_supplier_file_with_orm
\* a read of the store answers or fails
ReadOutcomes(used) == Outcomes(used) \ {"empty"}

\* tasks.py 666-672: the columns the orchestrator reads
supplier_name_col == IF "supplier_name" \in DOMAIN loc.mapping
                     THEN loc.mapping["supplier_name"] ELSE ""
product_name_col == GetCol(loc.mapping, "product_name", "Product name")
ean_col == GetCol(loc.mapping, "ean", "EAN")
mpn_col == GetCol(loc.mapping, "mpn", "MPN")
cost_col == IF "supplier_cost" \in DOMAIN loc.mapping
            THEN loc.mapping["supplier_cost"]
            ELSE GetCol(loc.mapping, "cost", "Supplier Cost")
stock_col == IF "supplier_stock" \in DOMAIN loc.mapping
             THEN loc.mapping["supplier_stock"]
             ELSE GetCol(loc.mapping, "Supplier stock", "Supplier Stock")

\* tasks.py 1003-1010: float() of the cost cell in hundredths, 0.0 when the
\* column is not mapped or the cell is not a number
ParseCost(row, col, columns) ==
  IF col # "" /\ col \in columns
  THEN CASE Cell(row, col) = "12.50" -> 1250
         [] Cell(row, col) = "9" -> 900
         [] OTHER -> 0
  ELSE 0

\* tasks.py 1012-1019: int(float()) of the stock cell, 0 when the column is
\* not mapped or the cell is empty or not a number
ParseStock(row, col, columns) ==
  IF col # "" /\ col \in columns
  THEN CASE Cell(row, col) = "100" -> 100
         [] OTHER -> 0
  ELSE 0

\* tasks.py 702-706
OrmConnect ==
  /\ pc = "o_connect"
  /\ \E o \in ReadOutcomes(0) :
       /\ faults' = faults + Cost(o)
       /\ IF o = "raise"
          THEN /\ Raise("o_except", Msg("connect_error", <<>>))
               /\ UNCHANGED <<job, db>>
          ELSE /\ Save([job EXCEPT !.progress = 8,
                                   !.status_message = Msg("progress", <<>>)])
               /\ pc' = "o_supplier"
               /\ loc' = [loc EXCEPT !.total_rows = Len(file.rows)]
  /\ UNCHANGED <<rival, norm, cancel, file, driver, history, products, offers, suppliers, nextId, log>>

\* tasks.py 711: the supplier of the run is named by the first row
FirstSupplierName ==
  IF supplier_name_col \in file.columns
  THEN Cell(file.rows[1], supplier_name_col) ELSE "Default Supplier"

\* tasks.py 710-735: get or create the supplier
OrmSupplier ==
  /\ pc = "o_supplier"
  /\ LET found == {s \in suppliers : s.name = FirstSupplierName}
         ready(id, added) ==
           /\ Save([job EXCEPT !.progress = 10,
                               !.status_message = Msg("progress", <<>>)])
           /\ pc' = "o_prefetch"
           /\ loc' = [loc EXCEPT !.supplier = id, !.suppliers_added = added]
     IN \E sel \in ReadOutcomes(0) :
          IF sel = "raise"
          THEN /\ Raise("o_except", Msg("store_error", <<>>))
               /\ faults' = faults + 1
               /\ UNCHANGED <<job, db, suppliers, nextId>>
          ELSE IF found # {}
          THEN /\ \E s \in found : ready(s.id, 0)
               /\ UNCHANGED <<faults, suppliers, nextId>>
          ELSE \E ins \in Outcomes(0) :
                 /\ faults' = faults + Cost(ins)
                 /\ IF ins = "ok"
                    THEN /\ suppliers' = suppliers \cup
                              {[id |-> Uuid(nextId + 1), name |-> FirstSupplierName]}
                         /\ nextId' = nextId + 1
                         /\ ready(Uuid(nextId + 1), 1)
                    ELSE /\ Raise("o_except",
                                  Msg(IF ins = "empty" THEN "index_error"
                                      ELSE "store_error", <<>>))
                         /\ UNCHANGED <<job, db, suppliers, nextId>>
  /\ UNCHANGED <<rival, norm, cancel, file, driver, history, products, offers, log>>

\* tasks.py 753-762, 798-807: the values of a column in the sampled rows
Sampled(col, fix) ==
  IF col = "" \/ col \notin file.columns THEN {}
  ELSE {IF fix THEN fix_scientific_notation(Cell(file.rows[i], col))
        ELSE Cell(file.rows[i], col) :
          i \in 1..Min(Len(file.rows), MAX_PREFETCH_ITEMS)} \ {""}

\* the lookups a select on the products table can build: one product per
\* value, any of them when several products carry the value
LookupsBy(field, values) ==
  LET hit == {v \in values : \E p \in products : p[field] = v}
  IN {m \in [hit -> {p.id : p \in products}] :
        \A v \in hit : \E p \in products : p.id = m[v] /\ p[field] = v}

\* tasks.py 739-861: prefetch of the EAN and MPN lookups; a failed prefetch
\* is logged and leaves its lookup empty
OrmPrefetch ==
  /\ pc = "o_prefetch"
  /\ \E oe \in ReadOutcomes(0) : \E om \in ReadOutcomes(Cost(oe)) :
     \E em \in (IF oe = "ok" THEN LookupsBy("ean", Sampled(ean_col, TRUE))
                ELSE {EmptyMapping}) :
     \E mm \in (IF om = "ok" THEN LookupsBy("mpn", Sampled(mpn_col, FALSE))
                ELSE {EmptyMapping}) :
       /\ (oe = "raise" => Sampled(ean_col, TRUE) # {})
       /\ (om = "raise" => Sampled(mpn_col, FALSE) # {})
       /\ faults' = faults + Cost(oe) + Cost(om)
       /\ loc' = [loc EXCEPT !.ean_to_product_id = em, !.mpn_to_product_id = mm,
                             !.index = 0, !.batch = <<>>, !.seen_eans = {},
                             !.seen_product_ids = {}, !.marks = {}]
  /\ Save([job EXCEPT !.progress = 15, !.status_message = Msg("progress", <<>>)])
  /\ pc' = "o_row"
  /\ UNCHANGED <<rival, norm, cancel, file, driver, history, products, offers, suppliers, nextId, log>>

\* tasks.py 915: the occasional remote lookup of an MPN is made
NeedsLookup(ean, mpn, index) ==
  /\ EanTier(ean, loc.ean_to_product_id) = NoId
  /\ mpn # ""
  /\ mpn \notin DOMAIN loc.mpn_to_product_id
  /\ index % 100 = 0
  /\ DOMAIN loc.mpn_to_product_id = {}

\* what the lookup can return: a product with that MPN, else nothing
LookupResults(mpn, o) ==
  IF o = "ok" /\ \E p \in products : p.mpn = mpn
  THEN {p.id : p \in {q \in products : q.mpn = mpn}} ELSE {NoId}

CountMatch(stats, method) ==
  IF method = "none" THEN stats
  ELSE [stats EXCEPT !.total_matched = @ + 1, ![method] = @ + 1]

\* RowSupplier with a supplier of its own for a row that names another one
RowSupplier_ByRowName(row) ==
  IF Cell(row, supplier_name_col) = FirstSupplierName THEN loc.supplier
  ELSE Cell(row, supplier_name_col)

\* tasks.py 1024: the supplier_id of a record is the id of the supplier that
\* was resolved before the loop, whatever the row says
RowSupplier(row) == loc.supplier

\* tasks.py 865-1050: one iteration of the row loop, up to the flush
OrmRow ==
  /\ pc = "o_row"
  /\ LET i == loc.index
         total == loc.total_rows
         row == file.rows[i + 1]
         pp == SupplierProgressPercent(i, total)
         write == /\ i % SupplierProgressStep(total) = 0
                  /\ pp % 5 = 0
                  /\ pp \notin loc.marks
         ean == RowEan(row, ean_col, file.columns)
         mpn_cell == RowText(row, mpn_col, file.columns)
         name == RowText(row, product_name_col, file.columns)
         lookup == NeedsLookup(ean, mpn_cell, i)
     IN \E o \in (IF lookup THEN ReadOutcomes(0) ELSE {"ok"}) :
        \E ondemand \in (IF lookup THEN LookupResults(mpn_cell, o) ELSE {NoId}) :
          LET m == ResolveProductMatch(ean, mpn_cell, i, loc.ean_to_product_id,
                                       loc.mpn_to_product_id, ondemand)
              d == CheckDuplicate(m, ean, name, loc.seen_eans, loc.seen_product_ids)
              rec == [Offer(Uuid(nextId + 1), RowSupplier(row), m.product_id, name,
                            ean, m.mpn, m.match_method, i + 1)
                        EXCEPT !.cost = ParseCost(row, cost_col, file.columns),
                               !.supplier_stock =
                                  ParseStock(row, stock_col, file.columns)]
              batch == Append(loc.batch, rec)
              flush == Len(batch) >= job.batch_size \/ i = total - 1
              l1 == [loc EXCEPT
                       !.marks = IF write THEN @ \cup {pp} ELSE @,
                       !.mpn_to_product_id =
                          IF ondemand # NoId
                          THEN [k \in {mpn_cell} |-> ondemand] ELSE @,
                       !.match_stats = CountMatch(@, m.match_method),
                       !.seen_eans = d.seen_eans,
                       !.seen_product_ids = d.seen_product_ids]
          IN /\ faults' = faults + Cost(o)
             /\ IF write
                THEN Save([job EXCEPT !.progress = pp,
                                      !.status_message = Msg("progress", <<>>)])
                ELSE UNCHANGED <<job, db>>
             /\ log' = [log EXCEPT !.extracted = @ + 1]
             /\ IF d.is_duplicate
                THEN /\ loc' = [l1 EXCEPT
                                  !.deduped_count = @ + 1,
                                  !.duplicate_details =
                                     Append(@, [row_index |-> i + 1,
                                                reason |-> d.reason]),
                                  !.index = i + 1]
                     /\ pc' = IF i + 1 < total THEN "o_row" ELSE "o_final"
                     /\ UNCHANGED nextId
                ELSE /\ nextId' = nextId + 1
                     /\ IF flush
                        THEN /\ loc' = [l1 EXCEPT !.batch = batch]
                             /\ pc' = "o_bulk"
                        ELSE /\ loc' = [l1 EXCEPT !.batch = batch, !.index = i + 1]
                             /\ pc' = "o_row"
  /\ UNCHANGED <<rival, norm, cancel, file, driver, history, products, offers, suppliers>>

\* tasks.py 1212-1215, 1258-1260: the batch and both seen sets are emptied,
\* the message is saved and the loop goes to the next row
AfterFlush(l, successful) ==
  /\ loc' = [l EXCEPT !.batch = <<>>, !.seen_eans = {}, !.seen_product_ids = {},
                      !.successful_count = successful, !.index = @ + 1, !.chunk = 0]
  /\ Save([job EXCEPT !.status_message = Msg("processed", <<successful>>)])
  /\ pc' = IF l.index + 1 < l.total_rows THEN "o_row" ELSE "o_final"

\* tasks.py 1059-1075: the bulk upsert of a full batch
OrmBulkUpsert ==
  /\ pc = "o_bulk"
  /\ \E o \in Outcomes(0) :
       /\ faults' = faults + Cost(o)
       /\ IF o = "ok"
          THEN /\ offers' = Upsert(offers, loc.batch)
               /\ AfterFlush(loc, loc.successful_count + Len(loc.batch))
               /\ log' = [log EXCEPT !.offer_writes = @ + 1,
                                     !.fallback = NoFallback,
                                     !.confirmed = @ + Len(loc.batch)]
          ELSE /\ pc' = "o_chunk"
               /\ loc' = [loc EXCEPT !.chunk = 0]
               /\ log' = [log EXCEPT
                            !.offer_writes = @ + 1,
                            !.fallback = [n |-> Len(loc.batch),
                                          s0 |-> loc.successful_count,
                                          e0 |-> loc.error_count,
                                          done |-> FALSE]]
               /\ UNCHANGED <<job, db, offers>>
  /\ UNCHANGED <<rival, norm, cancel, file, driver, history, products, suppliers, nextId>>

\* the records of a write whose call answered with one of vals, order kept
Picked(recs, f, vals) ==
  LET F[k \in 0..Len(recs)] ==
        IF k = 0 THEN <<>>
        ELSE IF f[k] \in vals THEN Append(F[k - 1], recs[k]) ELSE F[k - 1]
  IN F[Len(recs)]

Count(f, vals) == Cardinality({k \in DOMAIN f : f[k] \in vals})

AllOutcomes == {"ok", "empty", "raise"}

\* tasks.py 1080: the chunk-th slice of the batch
ChunkOf(batch, chunk, size) ==
  SubSeq(batch, chunk * size + 1, Min((chunk + 1) * size, Len(batch)))

\* tasks.py 1096-1111: the stored records of the supplier by EAN (rows are
\* returned in table order, a later row replaces an earlier one)
ExistingRecords(supplier, eans) ==
  LET at(e) == {i \in 1..Len(offers) :
                  offers[i].supplier_id = supplier /\ offers[i].ean = e}
      hit == {e \in eans : at(e) # {}}
  IN [e \in hit |-> offers[CHOOSE i \in at(e) : \A j \in at(e) : j <= i].id]

\* tasks.py 1119-1128: a record either takes the identifier of the stored
\* record with its EAN or a new one
WithIds(recs, existing, first) ==
  LET isUpd(r) == r.ean # "" /\ r.ean \in DOMAIN existing
      nth(k) == Cardinality({j \in 1..k : ~isUpd(recs[j])})
  IN [k \in 1..Len(recs) |->
        IF isUpd(recs[k]) THEN [recs[k] EXCEPT !.id = existing[recs[k].ean]]
        ELSE [recs[k] EXCEPT !.id = Uuid(first + nth(k))]]

\* tasks.py 1085-1188: one chunk of the fallback of a failed bulk upsert.
\* lk is the lookup of stored records, up and ins the bulk update and insert,
\* iu and ii the record-by-record calls made when the bulk call raised.
OrmChunk ==
  /\ pc = "o_chunk"
  /\ LET recs0 == ChunkOf(loc.batch, loc.chunk, CHUNK_SIZE)
         chunk_eans == {recs0[k].ean : k \in 1..Len(recs0)} \ {""}
     IN \E lk \in AllOutcomes \ {"empty"} :
          LET existing == IF lk = "ok" /\ chunk_eans # {}
                          THEN ExistingRecords(loc.supplier, chunk_eans)
                          ELSE EmptyMapping
              recs == WithIds(recs0, existing, nextId)
              isUpd(r) == r.ean # "" /\ r.ean \in DOMAIN existing
              records_to_update == SelectSeq(recs, isUpd)
              records_to_insert == SelectSeq(recs, LAMBDA r : ~isUpd(r))
          IN \E up \in AllOutcomes, ins \in AllOutcomes :
             \E iu \in [1..Len(records_to_update) -> AllOutcomes] :
             \E ii \in [1..Len(records_to_insert) -> AllOutcomes] :
               LET cost == Cost(lk) + Cost(up) + Cost(ins)
                           + Count(iu, {"empty", "raise"})
                           + Count(ii, {"empty", "raise"})
                   updated == IF up = "ok" THEN records_to_update
                              ELSE IF up = "raise"
                              THEN Picked(records_to_update, iu, {"ok"})
                              ELSE <<>>
                   inserted == IF ins = "ok" THEN records_to_insert
                               ELSE IF ins = "raise"
                               THEN Picked(records_to_insert, ii, {"ok"})
                               ELSE <<>>
                   counted ==
                     (IF up = "ok" THEN Len(records_to_update)
                      ELSE IF up = "raise" THEN Count(iu, {"ok", "empty"}) ELSE 0)
                     + (IF ins = "ok" THEN Len(records_to_insert)
                        ELSE IF ins = "raise" THEN Count(ii, {"ok", "empty"})
                        ELSE 0)
                   successful == loc.successful_count + counted
                   last == (loc.chunk + 1) * CHUNK_SIZE >= Len(loc.batch)
                   answers == [log EXCEPT
                      !.offer_writes = @ + 1,
                      !.confirmed = @ + Len(updated) + Len(inserted),
                      !.dropped = @ + (IF up = "empty"
                                       THEN Len(records_to_update) ELSE 0)
                                    + (IF ins = "empty"
                                       THEN Len(records_to_insert) ELSE 0)]
               IN /\ faults + cost <= MaxFaults
                  /\ (chunk_eans = {} => lk = "ok")
                  /\ (records_to_update = <<>> => up = "ok")
                  /\ (records_to_insert = <<>> => ins = "ok")
                  /\ (up # "raise" => \A k \in DOMAIN iu : iu[k] = "ok")
                  /\ (ins # "raise" => \A k \in DOMAIN ii : ii[k] = "ok")
                  /\ faults' = faults + cost
                  /\ offers' = Upsert(Upsert(offers, updated), inserted)
                  /\ nextId' = nextId + Len(records_to_insert)
                  /\ IF last
                     THEN /\ AfterFlush(loc, successful)
                          /\ log' = [answers EXCEPT !.fallback.done = TRUE]
                     ELSE /\ loc' = [loc EXCEPT !.successful_count = successful,
                                                !.chunk = @ + 1]
                          /\ pc' = "o_chunk"
                          /\ log' = answers
                          /\ UNCHANGED <<job, db>>
  /\ UNCHANGED <<rival, norm, cancel, file, driver, history, products, suppliers>>

\* tasks.py 1266-1281: the records left when the loop ended on a duplicate
OrmFinal ==
  /\ pc = "o_final"
  /\ IF loc.batch = <<>>
     THEN UNCHANGED <<offers, faults, loc, log>>
     ELSE \E o \in Outcomes(0) :
            /\ faults' = faults + Cost(o)
            /\ offers' = IF o = "ok" THEN Upsert(offers, loc.batch) ELSE offers
            /\ loc' = [loc EXCEPT
                         !.successful_count =
                            IF o = "ok" THEN @ + Len(loc.batch) ELSE @,
                         !.error_count =
                            IF o = "raise" THEN @ + Len(loc.batch) ELSE @]
            /\ log' = [log EXCEPT
                         !.offer_writes = @ + 1, !.fallback = NoFallback,
                         !.confirmed = IF o = "ok" THEN @ + Len(loc.batch) ELSE @,
                         !.dropped = IF o = "empty" THEN @ + Len(loc.batch) ELSE @]
  /\ pc' = "o_complete"
  /\ UNCHANGED <<rival, norm, job, db, cancel, file, driver, history, products, suppliers, nextId>>

\* tasks.py 1283-1324: the job is completed and its history record written
OrmComplete ==
  /\ pc = "o_complete"
  /\ Save([job EXCEPT
             !.status = "completed", !.progress = 100,
             !.status_message =
                Msg("completed", <<loc.successful_count, loc.deduped_count,
                                   loc.error_count>>),
             !.results = [set |-> TRUE, total |-> loc.total_rows,
                          successful |-> loc.successful_count,
                          failed |-> loc.error_count,
                          skipped |-> loc.skipped_count,
                          deduped |-> loc.deduped_count,
                          suppliers_added |-> loc.suppliers_added,
                          total_matched |-> loc.match_stats.total_matched,
                          reasons |-> [k \in DOMAIN loc.duplicate_details |->
                                         loc.duplicate_details[k].reason]]])
  /\ history' = Append(history, HistoryRow("Supplier Data", "Completed", NoMsg))
  /\ pc' = "o_verify"
  /\ UNCHANGED <<rival, norm, cancel, file, driver, products, offers, suppliers, loc, nextId, faults, log>>

\* the stored records of a supplier
StoredFor(supplier) ==
  Cardinality({i \in 1..Len(offers) : offers[i].supplier_id = supplier})

\* AfterVerify with the stored count written to the results of the job
\* whenever it is larger than the count of the run
AfterVerify_Adjusts(actual_count) ==
  /\ loc' = [loc EXCEPT !.successful_count = Max(@, actual_count)]
  /\ IF actual_count > 0 /\ actual_count > loc.successful_count
     THEN Save([job EXCEPT
                  !.results.successful = actual_count,
                  !.status_message =
                     Msg("completed", <<actual_count, loc.deduped_count,
                                        loc.error_count>>)])
     ELSE UNCHANGED <<job, db>>

\* tasks.py 1365-1409: a larger stored count replaces the local
\* successful_count (1368-1372); the adjustment of job.results that follows
\* compares the stored count with that same variable (1396), so it finds
\* nothing larger and the saved results stay as they are
AfterVerify(actual_count) ==
  LET successful_count == Max(loc.successful_count, actual_count)
  IN /\ loc' = [loc EXCEPT !.successful_count = successful_count]
     /\ IF actual_count > 0 /\ actual_count > successful_count
        THEN Save([job EXCEPT
                     !.results.successful = actual_count,
                     !.status_message =
                        Msg("completed", <<actual_count, loc.deduped_count,
                                           loc.error_count>>)])
        ELSE UNCHANGED <<job, db>>

\* tasks.py 1326-1412: the stored records of the supplier are counted (0
\* when every count fails) and compared with the count of the run
OrmVerify ==
  /\ pc = "o_verify"
  /\ \E o \in ReadOutcomes(0) :
       LET actual_count == IF o = "ok" THEN StoredFor(loc.supplier) ELSE 0
       IN /\ faults' = faults + Cost(o)
          /\ AfterVerify(actual_count)
  /\ pc' = "done"
  /\ UNCHANGED <<rival, norm, cancel, file, driver, history, products, offers, suppliers, nextId, log>>

\* tasks.py 1414-1434: the handler of process_supplier_file_with_orm; the
\* exception goes on to the handler of process_supplier_file
OrmExcept ==
  /\ pc = "o_except"
  /\ Save([job EXCEPT !.status = "failed", !.status_message = loc.exc])
  /\ history' = Append(history, HistoryRow("Supplier Data", "Failed", loc.exc))
  /\ pc' = "s_except"
  /\ UNCHANGED <<rival, norm, cancel, file, driver, products, offers, suppliers, loc, nextId, faults, log>>

SupplierNext ==
  \/ SupplierRead \/ SupplierParse \/ SupplierMap \/ SupplierExcept
  \/ OrmConnect \/ OrmSupplier \/ OrmPrefetch \/ OrmRow \/ OrmBulkUpsert
  \/ OrmChunk \/ OrmFinal \/ OrmComplete \/ OrmVerify \/ OrmExcept

DriverNext == Start \/ UnknownType \/ DriverExcept \/ UnboundExcept


\* ---------------------------------------------------- process_product_file
\* ProductRead with the missing-file branch returning without marking the job
ProductRead_NoFail ==
  /\ pc = "p_read"
  /\ IF ~file.exists
     THEN /\ pc' = "done"
          /\ UNCHANGED <<job, db, loc>>
     ELSE IF file.format # "csv"
     THEN /\ Raise("p_except", Msg("unsupported_format", <<>>))
          /\ UNCHANGED <<job, db>>
     ELSE /\ Save([job EXCEPT !.total_rows = Len(file.rows)])
          /\ pc' = "p_map"
          /\ loc' = [loc EXCEPT !.total_rows = Len(file.rows)]
  /\ UNCHANGED <<rival, norm, cancel, file, driver, history, products, offers, suppliers, nextId,
                 faults, log>>

\* tasks.py 1452-1495: a missing file fails the job and returns
ProductRead ==
  /\ pc = "p_read"
  /\ IF ~file.exists
     THEN /\ Save([job EXCEPT !.status = "failed",
                              !.status_message = Msg("file_not_found", <<>>)])
          /\ pc' = "done"
          /\ UNCHANGED loc
     ELSE IF file.format # "csv"
     THEN /\ Raise("p_except", Msg("unsupported_format", <<>>))
          /\ UNCHANGED <<job, db>>
     ELSE /\ Save([job EXCEPT !.total_rows = Len(file.rows)])
          /\ pc' = "p_map"
          /\ loc' = [loc EXCEPT !.total_rows = Len(file.rows)]
  /\ UNCHANGED <<rival, norm, cancel, file, driver, history, products, offers, suppliers, nextId,
                 faults, log>>

\* tasks.py 1497-1537: the mapping is checked, then the store client is made
ProductMap ==
  /\ pc = "p_map"
  /\ LET field_mapping == ProductMapping(file)
         missing_fields == MissingProductFields(field_mapping)
     IN IF missing_fields # <<>>
        THEN /\ Raise("p_except", Msg("missing_fields", missing_fields))
             /\ UNCHANGED faults
        ELSE \E o \in ReadOutcomes(0) :
               /\ faults' = faults + Cost(o)
               /\ IF o = "raise"
                  THEN Raise("p_except", Msg("connect_error", <<>>))
                  ELSE /\ loc' = [loc EXCEPT !.mapping = field_mapping, !.index = 0,
                                             !.batch = <<>>, !.final = FALSE]
                       /\ pc' = IF loc.total_rows > 0 THEN "p_row" ELSE "p_handover"
  /\ UNCHANGED <<rival, norm, job, db, cancel, file, driver, history, products, offers, suppliers,
                 nextId, log>>

\* the loop goes to the next row; after the last one the records left in
\* the batch are the final batch (tasks.py 1845)
NextRow(l) ==
  IF l.index + 1 < l.total_rows
  THEN /\ loc' = [l EXCEPT !.index = @ + 1]
       /\ pc' = "p_row"
  ELSE /\ loc' = [l EXCEPT !.index = @ + 1, !.final = TRUE, !.chunk = 0]
       /\ pc' = IF l.batch # <<>> THEN "p_insert" ELSE "p_handover"

\* IsSkipped with a row also skipped when its EAN was seen in an earlier row
IsSkipped_DuplicateEan(title, brand, ean, seen_eans) ==
  title = "" \/ brand = "" \/ (ean # "" /\ ean \in seen_eans)

\* tasks.py 1561-1581: a row is skipped when its title or its brand is
\* missing; the test on the EANs seen so far is commented out
IsSkipped(title, brand, ean, seen_eans) == title = "" \/ brand = ""

\* tasks.py 1550-1603, 1839-1842: reading a cell under a header the file
\* does not have raises; the row is counted as an error and the loop goes on
RowRaises(fm, columns) ==
  \E k \in {"title", "ean", "brand", "sale_price"} : fm[k] \notin columns

\* AfterRowError with the exception of the row leaving the loop
AfterRowError_Abort(l) == Raise("p_except", Msg("row_error", <<>>))

\* tasks.py 1839-1842: the handler of the row loop counts the row and
\* continues with the next one
AfterRowError(l) == NextRow([l EXCEPT !.error_count = @ + 1])

\* tasks.py 1539-1765: one iteration of the row loop, up to the flush
ProductRow ==
  /\ pc = "p_row"
  /\ LET i == loc.index
         total == loc.total_rows
         row == file.rows[i + 1]
         fm == loc.mapping
         progress == ProductProgress(i, total)
         write == /\ (i % ProductUpdateFrequency(total) = 0 \/ i = total - 1)
                  /\ progress # job.progress
         title == Cell(row, fm["title"])
         brand == Cell(row, fm["brand"])
         ean == fix_scientific_notation(Cell(row, fm["ean"]))
         mpn == IF "mpn" \in DOMAIN fm /\ fm["mpn"] \in file.columns
                THEN Cell(row, fm["mpn"]) ELSE ""
         id == Uuid(nextId + 1)
         batch == Append(loc.batch, Product(id, ean, mpn, title, i + 1))
         l1 == [loc EXCEPT
                  !.batch = batch,
                  !.seen_eans = IF ean # "" THEN @ \cup {ean} ELSE @,
                  !.imported_products =
                     Append(@, [id |-> id, ean |-> ean, mpn |-> mpn,
                                title |-> Lower(title)])]
     IN /\ IF write THEN Save([job EXCEPT !.progress = progress])
                    ELSE UNCHANGED <<job, db>>
        /\ log' = [log EXCEPT !.extracted = @ + 1]
        /\ IF RowRaises(fm, file.columns)
           THEN /\ AfterRowError(loc)
                /\ UNCHANGED nextId
           ELSE IF IsSkipped(title, brand, ean, loc.seen_eans)
           THEN /\ NextRow([loc EXCEPT !.skipped_count = @ + 1])
                /\ UNCHANGED nextId
           ELSE /\ nextId' = nextId + 1
                /\ IF Len(batch) >= job.batch_size
                   THEN /\ loc' = [l1 EXCEPT !.chunk = 0]
                        /\ pc' = "p_insert"
                   ELSE NextRow(l1)
  /\ UNCHANGED <<rival, norm, cancel, file, driver, history, products, offers, suppliers, faults>>

\* the batch is emptied and the run goes on after a flush
AfterInsert(l) ==
  IF l.final
  THEN /\ loc' = [l EXCEPT !.batch = <<>>]
       /\ pc' = "p_handover"
  ELSE NextRow([l EXCEPT !.batch = <<>>])

\* tasks.py 1767-1783, 1845-1861: the bulk insert of a batch
ProductInsert ==
  /\ pc = "p_insert"
  /\ \E o \in Outcomes(0) :
       /\ faults' = faults + Cost(o)
       /\ IF o = "ok"
          THEN /\ products' = products \cup SeqToSet(loc.batch)
               /\ AfterInsert([loc EXCEPT !.successful_count = @ + Len(loc.batch)])
               /\ log' = [log EXCEPT !.product_writes = @ + 1,
                                     !.fallback = NoFallback,
                                     !.confirmed = @ + Len(loc.batch)]
          ELSE /\ pc' = "p_chunk"
               /\ loc' = [loc EXCEPT !.chunk = 0]
               /\ log' = [log EXCEPT
                            !.product_writes = @ + 1,
                            !.fallback = [n |-> Len(loc.batch),
                                          s0 |-> loc.successful_count,
                                          e0 |-> loc.error_count,
                                          done |-> FALSE]]
               /\ UNCHANGED products
  /\ UNCHANGED <<rival, norm, job, db, cancel, file, driver, history, offers, suppliers, nextId>>

\* tasks.py 1785-1830, 1863-1908: one chunk of the fallback of a failed bulk
\* insert; a chunk that raises is inserted record by record under new ids
ProductChunk ==
  /\ pc = "p_chunk"
  /\ LET size == IF loc.final THEN FINAL_CHUNK_SIZE ELSE CHUNK_SIZE
         chunk == ChunkOf(loc.batch, loc.chunk, size)
         renamed == [k \in 1..Len(chunk) |->
                       [chunk[k] EXCEPT !.id = Uuid(nextId + k)]]
         last == (loc.chunk + 1) * size >= Len(loc.batch)
     IN \E o \in AllOutcomes : \E ind \in [1..Len(chunk) -> AllOutcomes] :
          LET cost == Cost(o) + Count(ind, {"empty", "raise"})
              inserted == IF o = "ok" THEN SeqToSet(chunk)
                          ELSE IF o = "raise"
                          THEN SeqToSet(Picked(renamed, ind, {"ok"}))
                          ELSE {}
              l1 == [loc EXCEPT
                       !.successful_count = @ + Cardinality(inserted),
                       !.error_count =
                          IF o = "raise" THEN @ + Count(ind, {"raise"}) ELSE @,
                       !.chunk = @ + 1]
              answers == [log EXCEPT
                 !.product_writes = @ + 1,
                 !.confirmed = @ + Cardinality(inserted),
                 !.dropped = IF o = "empty" THEN @ + Len(chunk) ELSE @]
          IN /\ faults + cost <= MaxFaults
             /\ (o # "raise" => \A k \in DOMAIN ind : ind[k] = "ok")
             /\ faults' = faults + cost
             /\ products' = products \cup inserted
             /\ nextId' = IF o = "raise" THEN nextId + Len(chunk) ELSE nextId
             /\ IF last
                THEN /\ AfterInsert(l1)
                     /\ log' = [answers EXCEPT !.fallback.done = TRUE]
                ELSE /\ loc' = l1
                     /\ pc' = "p_chunk"
                     /\ log' = answers
  /\ UNCHANGED <<rival, norm, job, db, cancel, file, driver, history, offers, suppliers>>

\* ------------------------------------------------------- Matching Sweep
\* tasks.py 1917-1933: progress is set to 90; the sweep runs when the file
\* gave at least one product record
ProductHandover ==
  /\ pc = "p_handover"
  /\ Save([job EXCEPT !.progress = HandOverProgress,
                      !.status_message = Msg("imported", <<loc.successful_count>>)])
  /\ pc' = IF loc.imported_products # <<>> THEN "w_init" ELSE "p_complete"
  /\ UNCHANGED <<rival, norm, cancel, file, driver, history, products, offers, suppliers, loc, nextId,
                 faults, log>>

\* tasks.py 2042-2061: a lookup from keys to the id of the last imported
\* product that carries the key
BuildLookup(imported, keysOf) ==
  LET at(k) == {i \in 1..Len(imported) : k \in keysOf[i]}
      keys == UNION {keysOf[i] : i \in 1..Len(imported)}
  IN [k \in keys |-> imported[CHOOSE i \in at(k) : \A j \in at(k) : j <= i].id]

EanKeys(p) == IF p.ean # "" THEN {Lower(p.ean), p.ean} ELSE {}
MpnKeys(p) == IF p.mpn # "" THEN {normalize_mpn(p.mpn)} \ {""} ELSE {}
NameKeys(p) == IF p.title # "" THEN {Lower(p.title)} ELSE {}

\* the offers with a null product_id, in table order
Unmatched == SelectSeq(offers, LAMBDA sp : sp.product_id = NoId)

\* tasks.py 2067-2070: what the count query reports: the number of unmatched
\* offers, or fewer (down to no count at all, read as 0) when the store
\* under-reports, which is one fault
CountReports(used) ==
  {Len(Unmatched)} \cup (IF used < MaxFaults - faults
                         THEN 0..Len(Unmatched) ELSE {})

\* tasks.py 2030-2087: lookups from the products of this run, count of the
\* unmatched offers (an overestimate when the count fails), paging limits
SweepInit ==
  /\ pc = "w_init"
  /\ \E o \in ReadOutcomes(0) :
     \E count \in IF o = "ok" THEN CountReports(0) ELSE {0} :
       LET total_unmatched == IF o = "ok" THEN count ELSE OVERESTIMATE
           under == IF o = "ok" /\ count < Len(Unmatched) THEN 1 ELSE 0
       IN /\ faults' = faults + Cost(o) + under
          /\ log' = [log EXCEPT !.sweep = [ran |-> TRUE,
                                           unmatched |-> Len(Unmatched),
                                           page_errors |-> 0,
                                           iterations |-> 0]]
          /\ loc' = [loc EXCEPT
                       !.products_by_ean = BuildLookup(loc.imported_products,
                           [i \in 1..Len(loc.imported_products) |-> EanKeys(loc.imported_products[i])]),
                       !.products_by_mpn = BuildLookup(loc.imported_products,
                           [i \in 1..Len(loc.imported_products) |-> MpnKeys(loc.imported_products[i])]),
                       !.products_by_name = BuildLookup(loc.imported_products,
                           [i \in 1..Len(loc.imported_products) |-> NameKeys(loc.imported_products[i])]),
                       !.offset = 0, !.total_processed = 0,
                       !.matches_to_update = <<>>,
                       !.total_unmatched = total_unmatched,
                       !.max_offset = total_unmatched + BATCH_SIZE,
                       !.consecutive_empty_batches = 0]
  /\ pc' = "w_page"
  /\ UNCHANGED <<rival, norm, job, db, cancel, file, driver, history, products, offers, suppliers,
                 nextId>>

\* SweepTail with a handler that counts the empty page but leaves the offset
\* where it was before the iteration
SweepTail_NoAdvance(l) ==
  /\ pc' = "w_page"
  /\ IF l.total_unmatched = 0
     THEN /\ loc' = [l EXCEPT !.consecutive_empty_batches = @ + 1]
          /\ UNCHANGED <<job, db>>
     ELSE /\ loc' = [l EXCEPT !.offset = @ + BATCH_SIZE]
          /\ Save([job EXCEPT
                     !.progress = SweepProgress(l.offset + BATCH_SIZE,
                                                l.total_unmatched),
                     !.status_message = Msg("sweep", <<l.total_processed>>)])

\* tasks.py 2395-2409: the offset advances and progress is saved; with no
\* unmatched offer counted the division raises, the handler counts an empty
\* page and advances the offset once more
SweepTail(l) ==
  /\ pc' = "w_page"
  /\ IF l.total_unmatched = 0
     THEN /\ loc' = [l EXCEPT !.offset = @ + BATCH_SIZE + BATCH_SIZE,
                              !.consecutive_empty_batches = @ + 1]
          /\ UNCHANGED <<job, db>>
     ELSE /\ loc' = [l EXCEPT !.offset = @ + BATCH_SIZE]
          /\ Save([job EXCEPT
                     !.progress = SweepProgress(l.offset + BATCH_SIZE,
                                                l.total_unmatched),
                     !.status_message = Msg("sweep", <<l.total_processed>>)])

\* tasks.py 2133-2146: the loop test and the fetch of the next page of
\* unmatched offers
SweepPage ==
  /\ pc = "w_page"
  /\ IF ~(loc.offset < loc.max_offset
          /\ loc.consecutive_empty_batches < MAX_EMPTY_BATCHES)
     THEN /\ pc' = "p_complete"
          /\ UNCHANGED <<job, db, loc, faults, log>>
     ELSE \E o \in ReadOutcomes(0) :
            LET page == SubSeq(Unmatched, loc.offset + 1,
                               Min(loc.offset + BATCH_SIZE, Len(Unmatched)))
            IN /\ faults' = faults + Cost(o)
               /\ IF o = "raise"
                  THEN /\ loc' = [loc EXCEPT !.consecutive_empty_batches = @ + 1,
                                             !.offset = @ + BATCH_SIZE]
                       /\ pc' = "w_page"
                       /\ log' = [log EXCEPT !.sweep.page_errors = @ + 1,
                                             !.sweep.iterations = @ + 1]
                       /\ UNCHANGED <<job, db>>
                  ELSE IF page = <<>>
                  THEN /\ SweepTail([loc EXCEPT !.consecutive_empty_batches = @ + 1])
                       /\ log' = [log EXCEPT !.sweep.iterations = @ + 1]
                  ELSE /\ loc' = [loc EXCEPT !.consecutive_empty_batches = 0,
                                             !.total_processed = @ + Len(page),
                                             !.page = page, !.pos = 1]
                       /\ pc' = "w_offer"
                       /\ log' = [log EXCEPT !.sweep.iterations = @ + 1]
                       /\ UNCHANGED <<job, db>>
  /\ UNCHANGED <<rival, norm, cancel, file, driver, history, products, offers, suppliers, nextId>>

\* the outcomes of a lookup in the store that is made only when call holds
CallOutcomes(call, used) == IF call THEN ReadOutcomes(used) ELSE {"ok"}

\* what a lookup returns as its first row: any stored product that
\* is among hits, nothing when the call was not made or failed
FirstRow(call, o, hits) ==
  IF call /\ o = "ok" /\ hits # {}
  THEN {p.id : p \in hits} ELSE {NoId}

Extend(f, k, v) == [x \in DOMAIN f \cup {k} |-> IF x = k THEN v ELSE f[x]]

\* tasks.py 2151-2370: one offer of the page goes through the EAN tier, then
\* the MPN tier, then the name tier.  index is the variable the row loop left
\* behind: the position of the last row of the file.
SweepOffer ==
  /\ pc = "w_offer"
  /\ LET sp == loc.page[loc.pos]
         index == loc.total_rows - 1
         by_ean == loc.products_by_ean
         by_mpn == loc.products_by_mpn
         by_name == loc.products_by_name
         normalized_sp_ean == Lower(sp.ean)
         normalized_sp_mpn == normalize_mpn(sp.mpn)
         product_name == Lower(sp.product_name)
         eanHit == sp.ean # "" /\ normalized_sp_ean \in DOMAIN by_ean
         eanCall == sp.ean # "" /\ ~eanHit /\ index % 20 = 0
     IN \E oe \in CallOutcomes(eanCall, 0) :
        \E pe \in FirstRow(eanCall, oe, {p \in products : p.ean = normalized_sp_ean}) :
          LET byEan == IF eanHit THEN by_ean[normalized_sp_ean] ELSE pe
              mpnTry == sp.mpn # "" /\ byEan = NoId /\ normalized_sp_mpn # ""
              mpnHit == mpnTry /\ normalized_sp_mpn \in DOMAIN by_mpn
              mpnCall == mpnTry /\ ~mpnHit /\ index % 20 = 0
          IN \E om \in CallOutcomes(mpnCall, Cost(oe)) :
             \E pm \in FirstRow(mpnCall, om, {p \in products : p.mpn = sp.mpn}) :
               LET byMpn == IF mpnHit THEN by_mpn[normalized_sp_mpn] ELSE pm
                   nameTry == /\ sp.product_name # ""
                              /\ byEan = NoId /\ byMpn = NoId
                              /\ TextLen(product_name) > 2
                   nameHit == nameTry /\ product_name \in DOMAIN by_name
                   nameCall == /\ nameTry /\ ~nameHit
                               /\ \/ TextLen(product_name) > 15 /\ index % 100 = 0
                                  \/ index % 500 = 0
               IN \E on \in CallOutcomes(nameCall, Cost(oe) + Cost(om)) :
                  \E pn \in FirstRow(nameCall, on,
                                     {p \in products : Lower(p.title) = product_name}) :
                    LET byName == IF nameHit THEN by_name[product_name] ELSE pn
                        m == IF byEan # NoId
                             THEN [product_id |-> byEan, match_method |-> "ean"]
                             ELSE IF byMpn # NoId
                             THEN [product_id |-> byMpn, match_method |-> "mpn"]
                             ELSE IF byName # NoId
                             THEN [product_id |-> byName, match_method |-> "name"]
                             ELSE [product_id |-> NoId, match_method |-> "none"]
                    IN /\ faults' = faults + Cost(oe) + Cost(om) + Cost(on)
                       /\ loc' = [loc EXCEPT
                            !.products_by_ean =
                               IF ~eanHit /\ pe # NoId
                               THEN Extend(@, normalized_sp_ean, pe) ELSE @,
                            !.products_by_mpn =
                               IF ~mpnHit /\ pm # NoId
                               THEN Extend(@, normalized_sp_mpn, pm) ELSE @,
                            !.match_stats = CountMatch(@, m.match_method),
                            !.matches_to_update =
                               IF m.product_id # NoId
                               THEN Append(@, [id |-> sp.id,
                                               product_id |-> m.product_id,
                                               match_method |-> m.match_method])
                               ELSE @,
                            !.pos = @ + 1]
                       /\ pc' = IF loc.pos < Len(loc.page) THEN "w_offer"
                                ELSE "w_update"
                       /\ log' = [log EXCEPT !.examined = Append(@, sp.id)]
  /\ UNCHANGED <<rival, norm, job, db, cancel, file, driver, history, products, offers, suppliers, nextId>>

\* an upsert that carries the id, product_id and match_method of stored offers
ApplyMatches(table, ms) ==
  [i \in 1..Len(table) |->
     IF \E k \in 1..Len(ms) : ms[k].id = table[i].id
     THEN LET m == ms[CHOOSE k \in 1..Len(ms) : ms[k].id = table[i].id]
          IN [table[i] EXCEPT !.product_id = m.product_id,
                              !.match_method = m.match_method]
     ELSE table[i]]

\* tasks.py 2372-2402: the matches of the page are written in batches, a
\* failed batch is logged and dropped; then the offset advances
SweepUpdate ==
  /\ pc = "w_update"
  /\ LET ms == loc.matches_to_update
         nb == (Len(ms) + MATCH_BATCH_SIZE - 1) \div MATCH_BATCH_SIZE
         batchOf(k) == ((k - 1) \div MATCH_BATCH_SIZE) + 1
     IN \E ob \in [1..nb -> {"ok", "raise"}] :
          LET cost == Count(ob, {"raise"})
              written == Picked(ms, [k \in 1..Len(ms) |-> ob[batchOf(k)]], {"ok"})
          IN /\ faults + cost <= MaxFaults
             /\ faults' = faults + cost
             /\ offers' = ApplyMatches(offers, written)
             /\ log' = [log EXCEPT !.offer_writes = @ + nb]
             /\ SweepTail([loc EXCEPT !.matches_to_update = <<>>])
  /\ UNCHANGED <<rival, norm, cancel, file, driver, history, products, suppliers, nextId>>

\* tasks.py 2453-2483: the job is completed and its history record written
ProductComplete ==
  /\ pc = "p_complete"
  /\ Save([job EXCEPT
             !.status = "completed", !.progress = 100,
             !.status_message =
                Msg("completed", <<loc.successful_count, loc.error_count,
                                   loc.skipped_count,
                                   loc.match_stats.total_matched>>),
             !.results = [@ EXCEPT !.set = TRUE, !.total = loc.total_rows,
                                   !.successful = loc.successful_count,
                                   !.failed = loc.error_count,
                                   !.skipped = loc.skipped_count,
                                   !.total_matched = loc.match_stats.total_matched]])
  /\ history' = Append(history, HistoryRow("Amazon Data", "Completed", NoMsg))
  /\ pc' = "done"
  /\ UNCHANGED <<rival, norm, cancel, file, driver, products, offers, suppliers, loc, nextId, faults, log>>

\* tasks.py 2486-2505: the handler of process_product_file
ProductExcept ==
  /\ pc = "p_except"
  /\ Save([job EXCEPT !.status = "failed", !.status_message = loc.exc])
  /\ history' = Append(history, HistoryRow("Amazon Data", "Failed", loc.exc))
  /\ pc' = "d_except"
  /\ UNCHANGED <<rival, norm, cancel, file, driver, products, offers, suppliers, loc, nextId, faults, log>>

ProductNext ==
  \/ ProductRead \/ ProductMap \/ ProductRow \/ ProductInsert \/ ProductChunk
  \/ ProductHandover \/ SweepInit \/ SweepPage \/ SweepOffer \/ SweepUpdate
  \/ ProductComplete \/ ProductExcept

Next == DriverNext \/ SupplierNext \/ ProductNext

Spec == Init /\ [][Next]_vars

\* ------------------------------------------------------ cancel endpoint
\* views.py 768-780: the request reads the job and refuses one that is not
\* in progress
CancelCheck ==
  /\ cancel = "idle"
  /\ cancel' = IF db.status \in {"waiting", "processing"} THEN "checked"
               ELSE "refused"
  /\ UNCHANGED <<rival, norm, job, db, file, driver, history, products, offers, suppliers, pc,
                 loc, nextId, faults, log>>

\* views.py 782-787: in a second call the row is marked cancelled
CancelWrite ==
  /\ cancel = "checked"
  /\ db' = [db EXCEPT !.status = "cancelled",
                      !.status_message = Msg("cancelled", <<>>)]
  /\ cancel' = "done"
  /\ UNCHANGED <<rival, norm, job, file, driver, history, products, offers, suppliers, pc,
                 loc, nextId, faults, log>>

NextCancel == Next \/ CancelCheck \/ CancelWrite

SpecCancel == Init /\ [][NextCancel]_vars

\* --------------------------------------------------- value normalizer
\* fix_scientific_notation applied to a value, then to its own result
InitNorm ==
  /\ job = NewJob("other", 1)
  /\ db = Persist(job)
  /\ file = File(TRUE, "csv", ProductColumns, EmptyMapping, OneProductRow)
  /\ driver = "upload"
  /\ products = {} /\ offers = <<>> /\ suppliers = {}
  /\ history = <<>> /\ pc = "start" /\ loc = InitLoc /\ nextId = 0
  /\ faults = 0 /\ log = InitLog /\ cancel = "idle" /\ rival = NoRival
  /\ \E v \in NormInputs : norm = [v |-> v, out |-> <<>>]

NormApply ==
  /\ Len(norm.out) < 2
  /\ norm' = [norm EXCEPT !.out =
                Append(@, FixScientificNotation(IF @ = <<>> THEN norm.v
                                                ELSE @[Len(@)]))]
  /\ UNCHANGED <<job, db, file, driver, history, products, offers, suppliers, pc,
                 loc, nextId, faults, log, cancel, rival>>

NextNorm == NormApply

SpecNorm == InitNorm /\ [][NextNorm]_vars

\* ------------------------------------------------- a second, concurrent job
\* A second worker runs the same orchestrator code on its own job while the
\* first one runs; its store calls interleave with those of the first.

\* the second supplier import: it is given the file of the first job
SupplierRival ==
  [kind |-> "supplier", pc |-> "r_supplier", supplier |-> NoId, page |-> <<>>]

\* tasks.py 880-1035: the record the second job builds from the row of the
\* file when the products table is empty, under an identifier of its own
RivalOffer(supplier) ==
  LET row == file.rows[1]
      ean == RowEan(row, ean_col, file.columns)
      m == ResolveProductMatch(ean, RowText(row, mpn_col, file.columns), 0,
                               EmptyMapping, EmptyMapping, NoId)
  IN Offer("oR", supplier, m.product_id,
           RowText(row, product_name_col, file.columns), ean, m.mpn,
           m.match_method, 0)

\* the jobs that may run beside the first one
Rivals ==
  {NoRival} \cup
  (IF job.type = "supplier" /\ file.exists /\ file.format = "csv"
      /\ file.columns = SupplierColumns /\ file.field_mapping = EmptyMapping
      /\ file.rows = OneSupplierRow /\ products = {}
   THEN {SupplierRival} ELSE {})

\* the second product import: it has stored one product, with EAN e1, no MPN
\* and a title no offer carries, and is about to fetch its first page
PR == Product("pR", "e1", "", "title r", 0)

SweepRival ==
  [kind |-> "sweep", pc |-> "r_page", supplier |-> NoId, page |-> <<>>]

\* a product import whose first row matches offer OA by MPN and by name,
\* beside the sweep of the second product import
InitSweepRace ==
  /\ \E b \in 1..MaxRows : job = NewJob("product", b)
  /\ file \in {File(TRUE, "csv", ProductColumns, EmptyMapping, r) :
                 r \in {<<Row("", "title2", "b", "", "m2", "9")>>,
                        <<Row("", "title2", "b", "", "m2", "9"),
                          Row("", "title2", "b", "", "", "9")>>}}
  /\ driver = "upload"
  /\ products = {PR}
  /\ offers \in {<<OA>>, <<OA, OB, OD>>}
  /\ suppliers = {[id |-> "s1", name |-> "Acme"]}
  /\ InitCommon
  /\ db = Persist(job)
  /\ rival = SweepRival

InitRace == (InitJob /\ rival \in Rivals) \/ InitSweepRace

\* tasks.py 715-719: the second job selects the supplier by name
RivalSupplierLookup ==
  /\ rival.kind = "supplier" /\ rival.pc = "r_supplier"
  /\ LET found == {x \in suppliers : x.name = FirstSupplierName}
     IN IF found # {}
        THEN \E x \in found :
               rival' = [rival EXCEPT !.supplier = x.id, !.pc = "r_rows"]
        ELSE rival' = [rival EXCEPT !.pc = "r_create"]
  /\ UNCHANGED <<job, db, file, driver, history, products, offers, suppliers, pc,
                 loc, nextId, faults, log, cancel, norm>>

\* tasks.py 721-730: no supplier was found, the second job inserts one
RivalSupplierCreate ==
  /\ rival.pc = "r_create"
  /\ suppliers' = suppliers \cup {[id |-> "sR", name |-> FirstSupplierName]}
  /\ rival' = [rival EXCEPT !.supplier = "sR", !.pc = "r_rows"]
  /\ UNCHANGED <<job, db, file, driver, history, products, offers, pc,
                 loc, nextId, faults, log, cancel, norm>>

\* tasks.py 1022-1063: the second job upserts the offer of its row
RivalSupplierRows ==
  /\ rival.pc = "r_rows"
  /\ offers' = Upsert(offers, <<RivalOffer(rival.supplier)>>)
  /\ rival' = [rival EXCEPT !.pc = "r_done"]
  /\ UNCHANGED <<job, db, file, driver, history, products, suppliers, pc,
                 loc, nextId, faults, log, cancel, norm>>

\* tasks.py 2141: the second sweep fetches its first page of unmatched offers
RivalSweepPage ==
  /\ rival.pc = "r_page"
  /\ rival' = [rival EXCEPT
                 !.page = SubSeq(Unmatched, 1, Min(BATCH_SIZE, Len(Unmatched))),
                 !.pc = "r_write"]
  /\ UNCHANGED <<job, db, file, driver, history, products, offers, suppliers, pc,
                 loc, nextId, faults, log, cancel, norm>>

\* tasks.py 2157-2187, 2363-2370: the matches of the fetched page, found in
\* the second job's EAN lookup; product_id is read from the fetched rows
RivalMatches ==
  LET by_ean == BuildLookup(<<PR>>, [i \in {1} |-> EanKeys(PR)])
      hit(sp) == /\ sp.product_id = NoId
                 /\ sp.ean # "" /\ Lower(sp.ean) \in DOMAIN by_ean
      found == SelectSeq(rival.page, hit)
  IN [k \in 1..Len(found) |->
        [id |-> found[k].id, product_id |-> by_ean[Lower(found[k].ean)],
         match_method |-> "ean"]]

\* tasks.py 2372-2385: the second sweep upserts the matches of its page
RivalSweepWrite ==
  /\ rival.pc = "r_write"
  /\ offers' = ApplyMatches(offers, RivalMatches)
  /\ rival' = [rival EXCEPT !.pc = "r_done"]
  /\ UNCHANGED <<job, db, file, driver, history, products, suppliers, pc,
                 loc, nextId, faults, log, cancel, norm>>

RivalNext ==
  \/ RivalSupplierLookup \/ RivalSupplierCreate \/ RivalSupplierRows
  \/ RivalSweepPage \/ RivalSweepWrite

NextRace == Next \/ RivalNext

SpecRace == InitRace /\ [][NextRace]_vars

\* ================================================================ claims
\* C1: across a run of the orchestrator and an interleaved cancel request
\* the persisted status only moves pending -> processing -> completed or
\* failed: no other value, no step backwards, no change after a terminal one.
StatusOrder == {<<"pending", "processing">>, <<"processing", "completed">>,
                <<"processing", "failed">>}

C1_StatusMonotone ==
  [][db'.status = db.status \/ <<db.status, db'.status>> \in StatusOrder]_vars

\* C2: when the orchestrator has returned (pc = "done") or raised to its
\* caller (pc = "d_except"), the persisted status is completed or failed.
C2_NeverLeftProcessing ==
  pc \in {"done", "d_except"} => db.status \in {"completed", "failed"}

C2_Witness ==
  /\ pc = "d_except"
  /\ job.type = "product"
  /\ loc.exc.kind = "connect_error"
  /\ db.status = "failed"

\* C3: for both kinds of import, a run on a job whose file does not exist
\* ends failed, with a status message and exactly one history record that
\* says Failed.
C3_MissingFile ==
  (pc = "done" /\ job.type \in {"supplier", "product"} /\ ~file.exists)
  => /\ db.status = "failed"
     /\ db.status_message # NoMsg
     /\ Len(history) = 1
     /\ history[1].status = "Failed"

\* C4: a run that ended completed or failed wrote exactly one history record;
\* after a failure the record says Failed and carries the job's message.
C4_OneHistoryRecord ==
  (pc = "done" /\ job.type \in {"supplier", "product"}
     /\ db.status \in {"completed", "failed"})
  => /\ Len(history) = 1
     /\ db.status = "failed" =>
          /\ history[1].status = "Failed"
          /\ history[1].error_message = db.status_message

\* C5: when the fallback tiers of a batch of n records whose bulk write
\* failed have finished, the successful count and the failed count have
\* grown by n together, in supplier and in product import.
C5_FallbackAccounts ==
  log.fallback.done =>
    (loc.successful_count - log.fallback.s0)
      + (loc.error_count - log.fallback.e0) = log.fallback.n

\* C6: a supplier import of two rows with the same EAN, with no store call
\* failing, writes exactly one of them and counts the other as deduped with
\* a reason, whatever the batch size.
SameEanRows ==
  /\ Len(file.rows) = 2
  /\ RowEan(file.rows[1], ean_col, file.columns) # ""
  /\ RowEan(file.rows[1], ean_col, file.columns)
       = RowEan(file.rows[2], ean_col, file.columns)

C6_OneRetained ==
  (pc = "done" /\ job.type = "supplier" /\ db.status = "completed"
     /\ faults = 0 /\ SameEanRows)
  => /\ Cardinality({i \in 1..Len(offers) : offers[i].src \in {1, 2}}) = 1
     /\ db.results.deduped = 1
     /\ Len(db.results.reasons) = 1
     /\ db.results.reasons[1] # ""

\* C7: when a product import with no failing store call has completed, every
\* offer that was unmatched before it and whose EAN is the EAN of a product
\* the import persisted has a product and match_method ean.
C7_SweepMatchesByEan ==
  (pc = "done" /\ job.type = "product" /\ db.status = "completed" /\ faults = 0)
  => \A i \in 1..Len(offers) :
       (offers[i].src = 0 /\ offers[i].ean # ""
          /\ \E p \in products : p.src > 0 /\ p.ean = offers[i].ean)
       => offers[i].product_id # NoId /\ offers[i].match_method = "ean"

\* C8: in the resolver of the supplier import and in the sweep, an offer
\* whose EAN is in the EAN lookup is matched to that product with method ean
\* whatever its MPN and name; a match by mpn is made only when the EAN tier
\* missed, a match by name only when the EAN and the MPN tiers missed.
ResolverEanFirst ==
  (pc = "o_row" /\ log'.extracted = log.extracted + 1) =>
    LET ean == RowEan(file.rows[loc.index + 1], ean_col, file.columns)
        hit == ean # "" /\ ean \in DOMAIN loc.ean_to_product_id
        by(x) == loc'.match_stats[x] - loc.match_stats[x]
        appended == Len(loc'.batch) = Len(loc.batch) + 1
        rec == loc'.batch[Len(loc'.batch)]
    IN /\ hit => /\ by("ean") = 1 /\ by("mpn") = 0
                 /\ appended => /\ rec.product_id = loc.ean_to_product_id[ean]
                                /\ rec.match_method = "ean"
       /\ by("mpn") = 1 => ~hit

SweepEanFirst ==
  (pc = "w_offer" /\ loc'.pos = loc.pos + 1) =>
    LET sp == loc.page[loc.pos]
        e == Lower(sp.ean)
        n == normalize_mpn(sp.mpn)
        hit == sp.ean # "" /\ e \in DOMAIN loc.products_by_ean
        matched == Len(loc'.matches_to_update) = Len(loc.matches_to_update) + 1
        m == loc'.matches_to_update[Len(loc'.matches_to_update)]
        eanKnown == sp.ean # "" /\ e \in DOMAIN loc'.products_by_ean
        mpnKnown == sp.mpn # "" /\ n \in DOMAIN loc'.products_by_mpn
    IN /\ hit => /\ matched
                 /\ m.product_id = loc.products_by_ean[e]
                 /\ m.match_method = "ean"
       /\ (matched /\ m.match_method = "mpn") => ~eanKnown
       /\ (matched /\ m.match_method = "name") => ~eanKnown /\ ~mpnKnown

C8_EanFirst == [][ResolverEanFirst /\ SweepEanFirst]_vars

C8_Witness ==
  /\ job.type = "product"
  /\ "m2" \in DOMAIN loc.products_by_mpn
  /\ \E i \in 1..Len(offers) :
       /\ offers[i].id = "oA" /\ offers[i].mpn = "m2"
       /\ offers[i].match_method = "ean"
       /\ offers[i].product_id = loc.products_by_ean[offers[i].ean]
       /\ offers[i].product_id # loc.products_by_mpn["m2"]

\* C9: while the persisted status is processing, a value written to
\* progress is never below the one written before it.
C9_ProgressMonotone ==
  [][(db.status = "processing" /\ db'.status = "processing")
       => db'.progress >= db.progress]_vars

\* C10: a product import whose mapping, explicit or auto-detected, lacks a
\* required field extracts no row, makes no write to the products table and
\* fails with a message that names every field the mapping lacks.
LacksRequired ==
  /\ job.type = "product" /\ file.exists /\ file.format = "csv"
  /\ \E k \in {"title", "ean", "brand", "sale_price"} :
       k \notin DOMAIN ProductMapping(file)

C10_MissingFieldsFail ==
  LacksRequired =>
    /\ log.extracted = 0 /\ log.product_writes = 0
    /\ pc \in {"start", "p_read", "p_map", "p_except", "d_except", "done"}
    /\ pc \in {"p_except", "d_except", "done"} =>
         /\ loc.exc.kind = "missing_fields"
         /\ \A k \in {"title", "ean", "brand", "sale_price"} :
              k \notin DOMAIN ProductMapping(file)
                => \E i \in 1..Len(loc.exc.fields) : loc.exc.fields[i] = k
    /\ pc = "done" => db.status = "failed" /\ db.status_message = loc.exc

C10_Witness ==
  /\ pc = "done" /\ job.type = "product"
  /\ DOMAIN file.field_mapping = {}
  /\ db.status = "failed"
  /\ db.status_message = Msg("missing_fields", <<"brand", "sale_price">>)

\* C11: in a product import of two rows that share an EAN and both carry a
\* title and a brand, in a file that has every mapped column, no row is
\* skipped; with no store call failing the run
\* completes with both rows stored as two records of that EAN under
\* distinct identifiers, two successes, none failed and none skipped.
SameEanProductRows ==
  /\ job.type = "product" /\ file.exists /\ file.format = "csv"
  /\ MissingProductFields(ProductMapping(file)) = <<>>
  /\ ~RowRaises(ProductMapping(file), file.columns)
  /\ Len(file.rows) = 2
  /\ file.rows[1].ean # "" /\ file.rows[1].ean = file.rows[2].ean
  /\ \A i \in 1..2 : file.rows[i].name # "" /\ file.rows[i].brand # ""

AcmeImport ==
  /\ job.type = "supplier" /\ file.exists /\ file.format = "csv"
  /\ file.columns = AcmeColumns /\ file.rows = <<AcmeRow>>
  /\ file.field_mapping = EmptyMapping

AcmeColumnsResolved ==
  /\ supplier_name_col = "Supplier Name"
  /\ GetCol(loc.mapping, "brand", "Brand") = "Brand"
  /\ product_name_col = "Product name"
  /\ ean_col = "EAN"
  /\ cost_col = "Cost"
  /\ stock_col = "Supplier stock"

C12_AcmeScenario ==
  (AcmeImport /\ pc = "done" /\ faults = 0) =>
    /\ AcmeColumnsResolved
    /\ db.status = "completed"
    /\ db.results.successful = 1
    /\ Len(offers) = 1
    /\ \E s \in suppliers : s.name = "Acme" /\ s.id = offers[1].supplier_id
    /\ offers[1].ean = "840000000000"
    /\ offers[1].cost = 1250
    /\ offers[1].supplier_stock = 100

\* C13: when a supplier import with no failing store call has completed,
\* every offer it stored for a row with an EAN, whatever the position of the
\* row, has match_method ean and the id of a product with that EAN when such
\* a product was in the store, and match_method none when no product has
\* that EAN or the MPN of the row.
C13_EanRowsMatched ==
  (pc = "done" /\ job.type = "supplier" /\ db.status = "completed" /\ faults = 0)
  => \A i \in 1..Len(offers) :
       (offers[i].src > 0 /\ offers[i].ean # "") =>
         LET byEan == {p \in products : p.ean = offers[i].ean}
             mpn == file.rows[offers[i].src].mpn
         IN /\ byEan # {} => /\ offers[i].match_method = "ean"
                              /\ offers[i].product_id \in {p.id : p \in byEan}
            /\ (byEan = {} /\ ~\E p \in products : p.mpn = mpn /\ mpn # "")
                 => /\ offers[i].match_method = "none"
                    /\ offers[i].product_id = NoId

\* C14: fix_scientific_notation applied to its own result returns that
\* result, for every value; and it maps 8.40E+11 to 840000000000.
C14_Idempotent ==
  /\ Len(norm.out) = 2 => norm.out[2] = norm.out[1]
  /\ (norm.v = Sci(840, 2, "E", "+", 11) /\ Len(norm.out) >= 1)
       => norm.out[1] = Dec(84, 10, 0)

\* C15: once a cancel request has marked the processing job cancelled, the
\* orchestrator issues no further batch write to the products or the offers
\* table and the job is not brought to completed.
C15_CancelObserved ==
  [][cancel = "done" =>
       /\ log'.offer_writes = log.offer_writes
       /\ log'.product_writes = log.product_writes
       /\ db'.status # "completed"]_vars

\* C16: an import, of either kind, of a file that is read but has no data
\* row issues no write to suppliers, offers or products, and when it has
\* returned the job is failed with the message that the file has no data.
EmptyFileImport ==
  /\ job.type \in {"supplier", "product"}
  /\ file.exists /\ file.format = "csv" /\ Len(file.rows) = 0

C16_EmptyFileFails ==
  EmptyFileImport =>
    /\ log.offer_writes = 0 /\ log.product_writes = 0
    /\ loc.suppliers_added = 0
    /\ pc = "done" => /\ db.status = "failed"
                      /\ db.status_message.kind = "no_data"

\* C17: once the row loop of an import has started (the file was read and
\* the mapping validated), no row that fails to extract and no batch write
\* that raises or returns no data, at any tier, fails the job: the run goes
\* on, and when it has returned the job is completed.
InRowLoop == log.extracted > 0 \/ log.offer_writes > 0 \/ log.product_writes > 0

SpecFair == Spec /\ WF_vars(Next)

C17_EndsCompleted == InRowLoop ~> (pc = "done" /\ db.status = "completed")

C18_NothingEscapes == pc # "escaped"

\* C19: at every tier of the Batch Upserter the successful count grows only
\* by the records returned in the data of a response, and the records of a
\* write that answered without data are always given to a further tier.
C19_OnlyConfirmedCounted ==
  /\ loc.successful_count = log.confirmed
  /\ log.dropped = 0

\* the sweep has ended after a count that reported fewer unmatched offers
\* than there were, with every page read and no offer matched on the way
UnderReportedSweepEnded ==
  /\ pc = "p_complete" /\ log.sweep.ran
  /\ loc.total_unmatched < log.sweep.unmatched
  /\ log.sweep.page_errors = 0
  /\ Len(Unmatched) = log.sweep.unmatched

\* C20: the sweep pages until the reported count is exhausted or
\* MAX_EMPTY_BATCHES consecutive pages were empty, so when the count query
\* reports fewer unmatched offers than exist (0 included) the offers beyond
\* the reported count have still been fetched and examined when it ends.
C20_UnderReportedStillExamined ==
  UnderReportedSweepEnded =>
    \A k \in 1..Len(Unmatched) :
      \E i \in 1..Len(log.examined) : log.examined[i] = Unmatched[k].id

\* both supplier imports have ended, the first one completed
BothSupplierJobsEnded ==
  /\ rival.kind = "supplier" /\ rival.pc = "r_done"
  /\ pc = "done" /\ db.status = "completed"

\* C21: when two concurrent supplier imports whose files name the same
\* supplier, which did not exist before, have both ended, the store holds
\* exactly one supplier of that name and every offer of both jobs carries
\* its id.
C21_OneSupplierCreated ==
  BothSupplierJobsEnded =>
    /\ Cardinality({x \in suppliers : x.name = FirstSupplierName}) = 1
    /\ \A x \in suppliers : \A i \in 1..Len(offers) :
         x.name = FirstSupplierName => offers[i].supplier_id = x.id

\* C22: starting from an empty offers table, whatever supplier imports have
\* run, one after the other or at the same time, the store never holds two
\* offers of one supplier matched to the same product, nor two unmatched
\* offers of one supplier with the same EAN.
C22_OneOfferPerPair ==
  \A i \in 1..Len(offers) : \A j \in 1..Len(offers) :
    (/\ job.type = "supplier"
     /\ i # j /\ offers[i].supplier_id = offers[j].supplier_id) =>
      /\ ~(/\ offers[i].product_id # NoId
           /\ offers[i].product_id = offers[j].product_id)
      /\ ~(/\ offers[i].product_id = NoId /\ offers[j].product_id = NoId
           /\ offers[i].ean # "" /\ offers[i].ean = offers[j].ean)

\* the sweep has ended after a count that was not under-reported, with
\* every page read
CountedSweepEnded ==
  /\ pc = "p_complete" /\ log.sweep.ran
  /\ loc.total_unmatched >= log.sweep.unmatched
  /\ log.sweep.page_errors = 0

\* C23: every offer that was unmatched when the sweep started (here every
\* stored offer) has been fetched and examined exactly once when the sweep
\* ends, although the matches of a page are written before the next page is
\* fetched at the advanced offset.
C23_EachUnmatchedExaminedOnce ==
  CountedSweepEnded =>
    \A k \in 1..Len(offers) :
      Cardinality({i \in 1..Len(log.examined) :
                     log.examined[i] = offers[k].id}) = 1

\* C24: in a product import every product_id standing on an offer (only the
\* sweep of the job writes one) is the id of a row of the products table,
\* also after a product batch failed to insert or the per-record fallback
\* inserted products under new identifiers.
C24_MatchedProductExists ==
  job.type = "product" =>
    \A i \in 1..Len(offers) :
      offers[i].product_id # NoId =>
        \E p \in products : p.id = offers[i].product_id

C26_OneSupplierPerJob ==
  job.type = "supplier" =>
    /\ \A i \in 1..Len(offers) :
         offers[i].src > 0 =>
           /\ offers[i].supplier_id = loc.supplier
           /\ \E x \in suppliers :
                x.id = loc.supplier /\ x.name = FirstSupplierName
    /\ \A x \in suppliers : x.name \in {"Acme", FirstSupplierName}

\* both rows of the file that names Acme and then Bolt are stored
C26_Witness ==
  /\ job.type = "supplier" /\ file.rows = TwoSupplierRows /\ pc = "done"
  /\ Cardinality({i \in 1..Len(offers) : offers[i].src > 0}) = 2
  /\ \E i \in 1..Len(offers) : offers[i].product_name = "n2"

\* C27: the mpn stored on an offer written by a supplier import is the MPN
\* cell of its row ("" for an empty cell), whether the row was matched by
\* EAN, matched by MPN or not matched.
C27_MpnPersisted ==
  job.type = "supplier" =>
    \A i \in 1..Len(offers) :
      offers[i].src > 0 =>
        offers[i].mpn = RowText(file.rows[offers[i].src], mpn_col, file.columns)

\* C28: with the sweeps of two product imports running at the same time, an
\* offer that carries a product_id keeps it: no step of either sweep changes
\* the product_id or the match_method of an offer that was already matched.
C28_MatchedOnce ==
  [][\A i \in 1..Len(offers) :
       (rival.kind = "sweep" /\ offers[i].product_id # NoId) =>
         /\ offers'[i].product_id = offers[i].product_id
         /\ offers'[i].match_method = offers[i].match_method]_vars

\* C29: when a product import is completed, the total_matched of its results
\* is the number of offers that carry a product_id written by its sweep (the
\* offers were all unmatched before): a match whose update failed is not
\* counted and no offer is counted twice.
C29_MatchedCountIsWritten ==
  (job.type = "product" /\ pc = "done" /\ db.status = "completed") =>
    db.results.total_matched =
      Cardinality({i \in 1..Len(offers) : offers[i].product_id # NoId})

InSweep == pc \in {"w_init", "w_page", "w_offer", "w_update"}

\* the iterations the page loop can make for the count it was given
MaxIterations ==
  (loc.total_unmatched + BATCH_SIZE + BATCH_SIZE - 1) \div BATCH_SIZE

\* between two iterations the offset is at least one page per iteration made
SweepAdvances ==
  /\ log.sweep.ran => log.sweep.iterations <= MaxIterations
  /\ (log.sweep.ran /\ pc = "w_page") =>
       loc.offset >= log.sweep.iterations * BATCH_SIZE

\* C30: whatever the store answers to the page fetches, lookups and updates
\* of the sweep, every iteration of the page loop moves the offset on by at
\* least BATCH_SIZE, the loop makes at most
\* ceil((total_unmatched + BATCH_SIZE) / BATCH_SIZE) iterations, and a job
\* that is in its sweep reaches completed.
C30_SweepTerminates ==
  /\ []SweepAdvances
  /\ (InSweep ~> (pc = "done" /\ db.status = "completed"))

\* a sweep that made as many iterations as its count allows, one of them on
\* a page whose fetch failed, has ended and the job is completed
C30_Witness ==
  /\ log.sweep.ran /\ pc = "done" /\ db.status = "completed"
  /\ log.sweep.iterations = MaxIterations
  /\ log.sweep.iterations >= 2
  /\ log.sweep.page_errors > 0
====
